---- MODULE Spec2Model ----
(***************************************************************************)
(* Aegis speech-to-speech bridge: the per-connection audio session of the  *)
(* two servers of the repository (bridge/ and aegis/), their utterance     *)
(* segmenters, the streamed tool-use conversation loop with sentence       *)
(* extraction, and the synthesis/transport of the reply.                   *)
(*                                                                         *)
(* Audio is modelled at a granularity of one block = 1600 bytes = 800      *)
(* samples of 16-bit mono PCM (50 ms at 16 kHz); every block has one       *)
(* amplitude, so a byte string is a sequence of amplitudes.  Text is a     *)
(* sequence of one-character strings.                                      *)
(***************************************************************************)
EXTENDS Integers, Sequences, FiniteSets, TLC

(* ------------------------------ bounds --------------------------------- *)
\* frames the client sends within one recording
MaxFrames == 4
\* configured number of consecutive silent chunks that ends an utterance
\* (settings.silence_chunks_to_stop, default 8; AudioBuffer threshold)
SilenceChunks == 3
\* the monotonic clock saturates here (any value above MAX_RECORDING_MS)
MaxClock == 10100
\* turns (utterances with recognised text) per audio session
MaxTurns == 1
\* frames and turns of the second connection
MaxPeerFrames == 2
MaxPeerTurns == 1
\* pings answered between two turn boundaries
MaxPings == 1
\* rows of the tasks table
MaxTasks == 2
\* latency samples recorded per stage
MaxRecords == 102
\* dashboard clients, and broadcasts of the audio session
MaxDash == 3
MaxBroadcasts == 2
\* the rate limiter's clock stops here; requests of the second address
MaxWall == 90
MaxOtherRequests == 2
\* text deltas the model provider streams within one turn of an audio session
MaxDeltas == 2
\* turns driven through the text entry point of a client
MaxChatTurns == 3
\* model responses that request a tool, per client
MaxToolReplies == 5
\* text deltas of the stream whose sentences are extracted
MaxSplitDeltas == 3
\* the configured history cap of the aegis client (ClaudeClient.max_history,
\* an instance attribute, 20 unless set otherwise)
max_history == 4

(* ----------------------------- constants ------------------------------- *)
\* log_latency: "keep last 100 measurements"
LATENCY_KEEP == 100
\* two of the stages process_pipeline records
Stages == {"stt", "llm"}
sample_rate == 16000
chunk_size_ms == 200
BYTES_MIN == 3200
MIN_SPEECH_RMS == 800
MIN_RECORDING_MS == 500
MAX_RECORDING_MS == 10000
DETECT_THRESHOLD == 500
silence_threshold == 500
max_tool_rounds == 5
BRIDGE_HISTORY_LIMIT == 40
BRIDGE_HISTORY_KEEP == 20
chunk_size == 6400

chunk_size_bytes == 320

\* settings.silence_chunks_to_stop as configured
SILENCE_CHUNKS_TO_STOP == SilenceChunks

\* AudioBuffer.__init__: chunks of silence that complete an utterance, for a
\* silence_duration_ms configured to SilenceChunks chunks of 10 ms
silence_duration_ms == 10 * SilenceChunks
bytes_per_ms == (sample_rate * 2) \div 1000
silence_threshold_chunks == (silence_duration_ms * bytes_per_ms) \div chunk_size_bytes

\* bytes of one block of the audio abstraction: a quarter of a 200 ms frame
BlockBytes == ((sample_rate * 2 * chunk_size_ms) \div 1000) \div 4

(* ------------------------------- audio --------------------------------- *)
\* frames a client may send: a short silent frame (1600 B), 200 ms frames
\* (6400 B) that are silent, soft (above the silence threshold, below the
\* speech floor), loud, or silent on average but for a loud click, and a
\* 600 ms frame of moderate speech
Short == <<0>>
Silent == <<0, 0, 0, 0>>
Soft == <<600, 600, 600, 600>>
Loud == <<2000, 2000, 2000, 2000>>
Click == <<0, 0, 0, 1900>>
Moderate == [i \in 1..12 |-> 1000]
Frames == {Short, Silent, Soft, Loud, Click, Moderate}

\* a single zero byte in a frame or buffer, where every other entry is a
\* block of BlockBytes bytes holding samples of one amplitude
Stray == -1

\* frames of any byte length: empty, one byte, three bytes (shorter than
\* two samples), 6401 bytes (odd), and whole frames
ByteFrames == {<<>>, <<Stray>>, <<Stray, Stray, Stray>>, Loud \o <<Stray>>, Silent, Loud}

\* time the client lets pass between two frames, in ms
TimeSteps == {300, 10100}

\* the frames and the pace of a client that just speaks and pauses
PlainFrames == {Silent, Loud}
PlainSteps == {200}

Min(a, b) == IF a < b THEN a ELSE b

RECURSIVE SumAbs(_)
SumAbs(s) == IF s = <<>> THEN 0 ELSE s[1] + SumAbs(Tail(s))

RECURSIVE SumSq(_)
SumSq(s) == IF s = <<>> THEN 0 ELSE s[1] * s[1] + SumSq(Tail(s))

RECURSIVE Flatten(_)
Flatten(ss) == IF ss = <<>> THEN <<>> ELSE ss[1] \o Flatten(Tail(ss))

\* the whole blocks of some audio
Blocks(pcm) == SelectSeq(pcm, LAMBDA x : x # Stray)

ByteLen(pcm) == Len(Blocks(pcm)) * BlockBytes + (Len(pcm) - Len(Blocks(pcm)))

\* struct.unpack(f"<{len(pcm) // 2}h", pcm) of detect_silence and
\* calculate_rms, reached from 4 bytes on: struct.error unless the buffer
\* has exactly 2 * (len // 2) bytes
unpack_raises(pcm) == ByteLen(pcm) >= 4 /\ ByteLen(pcm) # 2 * (ByteLen(pcm) \div 2)

\* total / len(samples) < level for the len(pcm) // 2 samples of pcm, where
\* total is the sum over its blocks of a block's value: with b blocks of
\* BlockBytes / 2 samples and q samples made of stray bytes this is
\* total * (BlockBytes / 2) < level * (b * (BlockBytes / 2) + q), computed
\* within 32 bits
AvgBelow(total, level, pcm) ==
    LET q == (Len(pcm) - Len(Blocks(pcm))) \div 2
    IN  total - level * Len(Blocks(pcm)) <= (level * q - 1) \div (BlockBytes \div 2)

\* detect_silence, where it returns: average absolute amplitude below the
\* threshold
detect_silence(pcm_chunk, threshold) ==
    IF ByteLen(pcm_chunk) < 4 THEN TRUE
    ELSE AvgBelow(SumAbs(Blocks(pcm_chunk)), threshold, pcm_chunk)

\* calculate_rms(pcm) < floor, where it returns, on the squares (rms is 0.0
\* below 4 bytes)
RmsBelow(pcm, floor) ==
    IF ByteLen(pcm) < 4 THEN 0 < floor
    ELSE AvgBelow(SumSq(Blocks(pcm)), floor * floor, pcm)


(* -------------------------------- text --------------------------------- *)
Term == {".", "!", "?"}
WS == {" "}

RECURSIVE RunIn(_, _, _)
\* length of the longest run of characters of S that starts at s[i]
RunIn(s, i, S) == IF i <= Len(s) /\ s[i] \in S THEN 1 + RunIn(s, i + 1, S) ELSE 0

RECURSIVE RunNotIn(_, _, _)
RunNotIn(s, i, S) == IF i <= Len(s) /\ s[i] \notin S THEN 1 + RunNotIn(s, i + 1, S) ELSE 0

RECURSIVE RStrip(_)
RStrip(s) == IF s # <<>> /\ s[Len(s)] \in WS THEN RStrip(SubSeq(s, 1, Len(s) - 1)) ELSE s

LStrip(s) == SubSeq(s, RunIn(s, 1, WS) + 1, Len(s))

\* str.strip()
Strip(s) == RStrip(LStrip(s))

\* SENTENCE_RE.match(buffer): ([^.!?]+[.!?]+)\s* anchored at the start
SENTENCE_RE(buf) ==
    LET n1 == RunNotIn(buf, 1, Term)
        n2 == RunIn(buf, n1 + 1, Term)
        n3 == RunIn(buf, n1 + n2 + 1, WS)
    IN  [ok |-> n1 > 0 /\ n2 > 0, group1 |-> SubSeq(buf, 1, n1 + n2), end |-> n1 + n2 + n3]

RECURSIVE YieldSentences_skips_one(_)
\* a sentence loop that resumes one character after the end of the match
YieldSentences_skips_one(buf) ==
    LET m == SENTENCE_RE(buf)
    IN  IF ~m.ok THEN [out |-> <<>>, rest |-> buf]
        ELSE LET r == YieldSentences_skips_one(SubSeq(buf, m.end + 2, Len(buf)))
                 s == Strip(m.group1)
             IN  [out |-> (IF s # <<>> THEN <<s>> ELSE <<>>) \o r.out, rest |-> r.rest]

RECURSIVE YieldSentences(_)
\* the while-loop of ClaudeClient.chat that yields the complete sentences of
\* the buffer: [out |-> sentences yielded, rest |-> the new buffer]
YieldSentences(buf) ==
    LET m == SENTENCE_RE(buf)
    IN  IF ~m.ok THEN [out |-> <<>>, rest |-> buf]
        ELSE LET r == YieldSentences(SubSeq(buf, m.end + 1, Len(buf)))
                 s == Strip(m.group1)
             IN  [out |-> (IF s # <<>> THEN <<s>> ELSE <<>>) \o r.out, rest |-> r.rest]

RECURSIVE SplitPoint(_, _)
\* first index >= i of a whitespace character that follows a terminator
SplitPoint(s, i) ==
    IF i > Len(s) THEN 0
    ELSE IF i >= 2 /\ s[i] \in WS /\ s[i - 1] \in Term THEN i
    ELSE SplitPoint(s, i + 1)

RECURSIVE ReSplit(_)
\* re.split(r'(?<=[.!?])\s+', s)
ReSplit(s) ==
    LET j == SplitPoint(s, 2)
    IN  IF j = 0 THEN <<s>>
        ELSE <<SubSeq(s, 1, j - 1)>> \o ReSplit(SubSeq(s, j + RunIn(s, j, WS), Len(s)))

RECURSIVE Chunks(_, _)
\* sizes of the slices pcm[i:i+size] for i in range(0, n, size)
Chunks(n, size) == IF n <= 0 THEN <<>> ELSE <<Min(n, size)>> \o Chunks(n - size, size)

\* a filter that strips the sentences but keeps the empty ones
NonBlank_keeps_blank(ss) == [i \in DOMAIN ss |-> Strip(ss[i])]

RECURSIVE NonBlank(_)
\* the stripped, non-empty elements of a list of sentences
NonBlank(ss) ==
    IF ss = <<>> THEN <<>>
    ELSE (IF Strip(ss[1]) # <<>> THEN <<Strip(ss[1])>> ELSE <<>>) \o NonBlank(Tail(ss))

(* ------------------------------ messages ------------------------------- *)
Msg(type, state, text, seq, n) ==
    [type |-> type, state |-> state, text |-> text, seq |-> seq, n |-> n]
Status(state) == Msg("status", state, <<>>, 0, 0)
\* one binary transport frame of n bytes carrying audio of the seq-th
\* text synthesized in this turn
Audio(text, seq, n) == Msg("audio", "", text, seq, n)
Connected == Msg("connected", "", <<>>, 0, 0)
ThinkingTone == Msg("tone", "", <<>>, 0, 0)
SuccessChime == Msg("chime", "", <<>>, 0, 0)
\* the keys of the latency object of the bridge's completion message
LatencyKeys == <<"stt_ms", "llm_ms", "total_ms">>
\* the bridge's completion message with the stage latencies it carries
DoneMsg == Msg("done", "", LatencyKeys, 0, 0)
ErrorMsg == Msg("error", "", <<>>, 0, 0)
ResetAck == Msg("reset_ack", "", <<>>, 0, 0)
Pong == Msg("pong", "", <<>>, 0, 0)
\* a sentence sent as JSON by the aegis text endpoint
TextMsg(text) == Msg("text", "", text, 0, 0)
\* the final message of a reply on the aegis text endpoint
TextDone == Msg("text", "done", <<>>, 0, 0)

\* dialogue history entries
UserMessage(text) == [role |-> "user", content |-> text, tool |-> "none", tool_use_id |-> 0]
AssistantMessage(text, tool) ==
    [role |-> "assistant", content |-> text, tool |-> IF tool THEN "tool_use" ELSE "none",
     tool_use_id |-> 0]
\* the user message that feeds tool results back: its content is the JSON
\* string the dispatcher returned
ToolResults(id, payload) ==
    [role |-> "user", content |-> payload, tool |-> "tool_result", tool_use_id |-> id]

\* what the recogniser may return for an utterance (<<>> is None / empty)
\* client addresses seen by the rate limiter
ClientIps == {"203.0.113.5", "203.0.113.9"}
\* ids of the rows of the tasks table
TaskIds == 1..MaxTasks
\* texts with and without a routing trigger
RouteTexts == { <<"h", "i">>, <<"P", "l", "a", "n">>, <<"p", "l", "a", "n", "e">> }
UserTexts == { <<"h", "i">> }
\* what the user of the second connection says
PeerTexts == { <<"y", "o">> }

(* ------------------------------- state --------------------------------- *)
VARIABLES
    sys,                   \* which server runs: "bridge" or "aegis"
    harness,               \* what the environment exercises: "session" (the
                           \* audio loop), "pipe" (the reply pipeline),
                           \* "chat" (the text entry point) or "split"
                           \* (sentence extraction)
    pc,                    \* position of the session task
    audio_buffer,          \* bytes accumulated for the current recording
    silence_counter,       \* consecutive silent frames
    is_recording,          \* bridge: a recording is in progress
    recording_start,       \* bridge: clock reading when the recording began
    now,                   \* time.monotonic() in ms
    audio_data,            \* the utterance handed to process_pipeline / STT
    via,                   \* what ended the recording of audio_data
    conversation_history,  \* ClaudeClient.conversation_history
    messages,              \* bridge get_response: the request's message list
    tool_round,            \* iterations of the tool loop completed
    full_response,         \* bridge get_response: text of the whole turn
    buffer,                \* aegis chat: text not yet yielded in this round
    round_text,            \* text of the current stream (final_message)
    sentence_buffer,       \* bridge process_pipeline: incomplete sentence
    response_text,         \* aegis audio_ws: the sentences joined
    first_audio_sent,      \* bridge process_pipeline
    sent,                  \* messages sent to the client since the last
                           \* turn boundary
    heard,                 \* frames received since the recording began
    segOut,                \* outcome of the last binary frame
    requests,              \* model requests issued in the current turn
    streamed,              \* text streamed by the provider in this turn
    sentences,             \* sentences extracted from the stream, this turn
    synth,                 \* texts handed to synthesize(), this turn
    turns,                 \* turns started
    deltas,                \* text deltas streamed in this turn
    tool_replies,          \* model responses that requested a tool
    inbox,                 \* a control frame the client sent while a turn is
                           \* in progress, not yet received by the session
    pcm_audio,             \* bytes synthesize() returned for each text of
                           \* synth (0: None)
    peer,                  \* the state of a second connection to the server
    dispatched,            \* tool invocations dispatched in this turn
    model,                 \* get_response: the model selected for the turn
    request_models,        \* the model of each request issued in this turn
    connections,           \* bridge: keys of the module-level connections dict
    client_ids,            \* bridge: the client_id local of each connection
    request_times,         \* RateLimiter.request_times: ip -> timestamps
    wall_time,             \* time.time() in seconds
    is_running,            \* TaskExecutor.is_running
    running_tasks,         \* TaskExecutor.running_tasks: ids with a background task
    task_status,           \* the status column of the tasks table, by id
    bg_task,               \* the asyncio task of each id: where it stands
    start_pc,              \* position of the start() coroutine
    stop_pc,               \* position of the stop() coroutine
    runs,                  \* executions begun for each id
    latency_stats,         \* bridge: latency_stats, stage -> samples
    recorded,              \* samples recorded for each stage so far
    dashboard_clients,     \* bridge: the module-level set of dashboard sockets
    bcast,                 \* the broadcast_to_dashboard call of the audio
                           \* session: where it stands and its locals
    delivered,             \* events of the current broadcast each dashboard
                           \* client received
    dash_closed,           \* dashboard sockets whose connection has ended
    client_history,        \* aegis executor: conversation_history of its
                           \* ClaudeClient, each entry with the task it is of
    task_sent              \* the messages sent to the model for each task

audioVars == <<audio_buffer, silence_counter, is_recording, recording_start, now>>
handVars == <<audio_data, via>>
clientVars == <<conversation_history, messages, tool_round, full_response, buffer, round_text>>
pipeVars == <<sentence_buffer, response_text, first_audio_sent>>
segVars == <<heard, segOut>>
turnVars == <<requests, streamed, sentences, synth, deltas>>
budgetVars == <<turns, tool_replies>>
toolVars == <<dispatched, model, request_models>>
regVars == <<connections, client_ids>>
limiterVars == <<request_times, wall_time>>
executorVars == <<is_running, running_tasks, task_status, bg_task, start_pc, stop_pc, runs>>
statsVars == <<latency_stats, recorded>>
dashVars == <<dashboard_clients, bcast, delivered, dash_closed>>
taskChatVars == <<client_history, task_sent>>
otherVars == <<statsVars, dashVars, taskChatVars>>
sideVars == <<limiterVars, executorVars, otherVars>>
vars == <<sys, harness, pc, audioVars, handVars, clientVars, pipeVars, sent,
          segVars, turnVars, budgetVars, inbox, pcm_audio, peer, toolVars, regVars,
          sideVars>>

NoOut == [seen |-> <<>>, done |-> FALSE, audio |-> <<>>, elapsed |-> 0]

\* the session state of a connection that has just been accepted
NewSession ==
    [audio_buffer |-> <<>>, silence_counter |-> 0, is_recording |-> FALSE,
     conversation_history |-> <<>>, open |-> TRUE]

\* the dashboard sockets that may connect
DashClients == 1..MaxDash

\* no broadcast has been made: pc is where the call stands ("idle": not in
\* a call), used the size the set iterator remembers, todo the clients the
\* iteration has yet to reach, cur the client being sent to, disconnected
\* the local set of failed clients, throughout the clients registered
\* since the call began, calls the broadcasts begun
NoBroadcast ==
    [pc |-> "idle", used |-> 0, todo |-> {}, cur |-> 0, disconnected |-> {},
     throughout |-> {}, calls |-> 0]

\* client_id = f"{host}:{port}" if websocket.client else "unknown": the ids
\* two connections can get (open TCP connections differ in host or port)
ClientIds ==
    IF harness = "status"
    THEN { <<a, b>> : a \in {"10.0.0.7:50001", "unknown"}, b \in {"10.0.0.8:50002", "unknown"} }
    ELSE { <<"10.0.0.7:50001", "10.0.0.8:50002">> }

InitCommon ==
    /\ sys \in {"bridge", "aegis"}
    /\ audio_buffer = <<>>
    /\ silence_counter = 0
    /\ is_recording = FALSE
    /\ recording_start = 0
    /\ now = 0
    /\ audio_data = <<>>
    /\ via = "none"
    /\ conversation_history = <<>>
    /\ messages = <<>>
    /\ tool_round = 0
    /\ full_response = <<>>
    /\ buffer = <<>>
    /\ round_text = <<>>
    /\ sentence_buffer = <<>>
    /\ response_text = <<>>
    /\ first_audio_sent = FALSE
    /\ heard = <<>>
    /\ segOut = NoOut
    /\ requests = 0
    /\ streamed = <<>>
    /\ sentences = <<>>
    /\ synth = <<>>
    /\ turns = 0
    /\ deltas = 0
    /\ tool_replies = 0
    /\ inbox = "none"
    /\ pcm_audio = <<>>
    /\ peer = NewSession
    /\ dispatched = <<>>
    /\ model = "none"
    /\ request_models = <<>>
    /\ client_ids \in ClientIds
    /\ connections = IF sys = "bridge" THEN {client_ids[1], client_ids[2]} ELSE {}
    /\ request_times = [ip \in ClientIps |-> <<>>]
    /\ wall_time = 0
    /\ is_running = FALSE
    /\ running_tasks = {}
    /\ task_status = [id \in TaskIds |-> "none"]
    /\ bg_task = [id \in TaskIds |-> "none"]
    /\ start_pc = "unstarted"
    /\ stop_pc = "idle"
    /\ runs = [id \in TaskIds |-> 0]
    /\ latency_stats = [stage \in Stages |-> <<>>]
    /\ recorded = [stage \in Stages |-> 0]
    /\ dashboard_clients = {}
    /\ bcast = NoBroadcast
    /\ delivered = [c \in DashClients |-> 0]
    /\ dash_closed = {}
    /\ client_history = <<>>
    /\ task_sent = [id \in TaskIds |-> <<>>]

\* an audio websocket right after accept(): the bridge has sent "connected"
Init ==
    /\ harness = "session"
    /\ InitCommon
    /\ pc = "recv"
    /\ sent = IF sys = "bridge" THEN <<Connected>> ELSE <<>>

(* ------------------------------ connections ---------------------------- *)
\* GET /api/status: the connection count it reports
api_status == [connections |-> Cardinality(connections),
               esp32_connected |-> Cardinality(connections) > 0]

\* connections.pop(client_id, None), bridge only: aegis keeps no registry
pop(conns, client_id) == IF sys = "bridge" THEN conns \ {client_id} ELSE conns

\* a factory that hands every connection the same client object
get_llm_client_shared(conn) == 0

\* get_llm_client() / ClaudeClient(): the client object of connection conn;
\* every call constructs a new object
get_llm_client(conn) == conn

\* the second connection's view of the dialogue history after this
\* connection's client wrote h
PeerSees(p, h) ==
    IF get_llm_client(1) = get_llm_client(2) THEN [p EXCEPT !.conversation_history = h] ELSE p

\* a step of this connection's task: it writes no local of the other task
PeerKept == peer' = PeerSees(peer, conversation_history')

(* --------------------------- bridge: audio loop ------------------------ *)
\* a silence counter that keeps counting through a non-silent frame
count_silence_no_reset(counter, is_silent) == counter + 1

\* audio_websocket: if is_silent: silence_counter += 1 else: silence_counter = 0
count_silence(counter, is_silent) == IF is_silent THEN counter + 1 ELSE 0

\* audio_websocket, binary frame f: detect_silence(pcm_chunk) raises, or the
\* end of speech is detected and calculate_rms(audio_buffer) raises
BridgeRaises(f, d) ==
    LET t == IF is_recording THEN Min(now + d, MaxClock) ELSE 0
        start == IF is_recording THEN recording_start ELSE t
        counted == count_silence(silence_counter, detect_silence(f, DETECT_THRESHOLD))
        counter == IF t - start > MAX_RECORDING_MS THEN SILENCE_CHUNKS_TO_STOP ELSE counted
    IN  \/ unpack_raises(f)
        \/ /\ counter >= SILENCE_CHUNKS_TO_STOP
           /\ ByteLen(audio_buffer \o f) > BYTES_MIN
           /\ unpack_raises(audio_buffer \o f)

\* audio_websocket, a binary frame f whose handling raises struct.error:
\* the buffer has been extended; except Exception logs, finally pops the
\* connection, the session task ends
BridgeFrameError(f, d) ==
    /\ sys = "bridge" /\ pc = "recv" /\ inbox = "none"
    /\ is_recording => Len(heard) < MaxFrames
    /\ BridgeRaises(f, d)
    /\ audio_buffer' = audio_buffer \o f
    /\ is_recording' = TRUE
    /\ heard' = IF is_recording THEN Append(heard, f) ELSE <<f>>
    /\ pc' = "closed"
    /\ connections' = pop(connections, client_ids[1])
    /\ UNCHANGED <<sys, harness, toolVars, client_ids, sideVars, inbox, pcm_audio, silence_counter,
                   recording_start, now, handVars, clientVars, pipeVars, sent, segOut, turnVars,
                   budgetVars>>
    /\ PeerKept

\* audio_websocket, a binary frame f received d ms after the previous one
BridgeFrame(f, d) ==
    /\ sys = "bridge" /\ pc = "recv"
    /\ is_recording => Len(heard) < MaxFrames
    /\ ~BridgeRaises(f, d)
    /\ LET t == IF is_recording THEN Min(now + d, MaxClock) ELSE 0
           buf == audio_buffer \o f
           start == IF is_recording THEN recording_start ELSE t
           counted == count_silence(silence_counter, detect_silence(f, DETECT_THRESHOLD))
           elapsed_ms == t - start
           counter == IF elapsed_ms > MAX_RECORDING_MS THEN SILENCE_CHUNKS_TO_STOP ELSE counted
           seen == IF is_recording THEN Append(heard, f) ELSE <<f>>
           ended == counter >= SILENCE_CHUNKS_TO_STOP /\ ByteLen(buf) > BYTES_MIN
           rejected == RmsBelow(buf, MIN_SPEECH_RMS) \/ elapsed_ms < MIN_RECORDING_MS
       IN  /\ now' = t
           /\ recording_start' = start
           /\ IF ended /\ rejected
              THEN /\ audio_buffer' = <<>>
                   /\ is_recording' = FALSE
                   /\ silence_counter' = 0
                   /\ heard' = <<>>
                   /\ segOut' = [seen |-> seen, done |-> FALSE, audio |-> <<>>, elapsed |-> elapsed_ms]
                   /\ UNCHANGED <<pc, sent, handVars>>
              ELSE IF ended
              THEN /\ audio_buffer' = buf
                   /\ is_recording' = TRUE
                   /\ silence_counter' = counter
                   /\ heard' = seen
                   /\ sent' = Append(sent, Status("processing"))
                   /\ audio_data' = buf
                   /\ via' = IF elapsed_ms > MAX_RECORDING_MS THEN "flush" ELSE "silence"
                   /\ segOut' = [seen |-> seen, done |-> TRUE, audio |-> buf, elapsed |-> elapsed_ms]
                   /\ pc' = "stt"
              ELSE /\ audio_buffer' = buf
                   /\ is_recording' = TRUE
                   /\ silence_counter' = counter
                   /\ heard' = seen
                   /\ segOut' = [seen |-> seen, done |-> FALSE, audio |-> <<>>, elapsed |-> elapsed_ms]
                   /\ UNCHANGED <<pc, sent, handVars>>
    /\ UNCHANGED <<sys, harness, toolVars, regVars, sideVars, pcm_audio, clientVars, pipeVars, turnVars, budgetVars>>
    /\ PeerKept

\* the frame is the next one the receive loop gets from the client
BridgeBinary(f, d) == inbox = "none" /\ BridgeFrame(f, d) /\ UNCHANGED inbox

\* an end_of_speech handler that starts the pipeline without a status
BridgeEndOfSpeech_no_status ==
    /\ sys = "bridge" /\ pc = "recv" /\ inbox = "none"
    /\ IF ByteLen(audio_buffer) > BYTES_MIN
       THEN /\ audio_data' = audio_buffer
            /\ via' = "end_of_speech"
            /\ pc' = "stt"
            /\ UNCHANGED sent
       ELSE UNCHANGED <<sent, handVars, pc>>
    /\ UNCHANGED <<sys, harness, toolVars, regVars, sideVars, inbox, pcm_audio, audioVars, clientVars, pipeVars, segVars, turnVars, budgetVars>>
    /\ PeerKept

\* audio_websocket, text frame {"type": "end_of_speech"}
BridgeEndOfSpeech ==
    /\ sys = "bridge" /\ pc = "recv" /\ inbox = "none"
    /\ IF ByteLen(audio_buffer) > BYTES_MIN
       THEN /\ sent' = Append(sent, Status("processing"))
            /\ audio_data' = audio_buffer
            /\ via' = "end_of_speech"
            /\ pc' = "stt"
       ELSE UNCHANGED <<sent, handVars, pc>>
    /\ UNCHANGED <<sys, harness, toolVars, regVars, sideVars, inbox, pcm_audio, audioVars, clientVars, pipeVars, segVars, turnVars, budgetVars>>
    /\ PeerKept

\* a reset handler that forgets the history but keeps the recording
BridgeReset_keeps_recording ==
    /\ sys = "bridge" /\ pc = "recv"
    /\ conversation_history' = <<>>
    /\ inbox' = "none"
    /\ UNCHANGED <<sys, harness, toolVars, regVars, sideVars, pcm_audio, pc, audioVars, handVars, messages, tool_round,
                   full_response, buffer, round_text, pipeVars, sent, segVars, turnVars,
                   budgetVars>>
    /\ PeerKept

\* audio_websocket, text frame {"type": "reset"}
BridgeReset ==
    /\ sys = "bridge" /\ pc = "recv"
    /\ conversation_history' = <<>>
    /\ audio_buffer' = <<>>
    /\ silence_counter' = 0
    /\ is_recording' = FALSE
    /\ heard' = <<>>
    /\ inbox' = "none"
    /\ UNCHANGED <<sys, harness, toolVars, regVars, sideVars, pcm_audio, pc, recording_start, now, handVars, messages, tool_round,
                   full_response, buffer, round_text, pipeVars, sent, segOut, turnVars,
                   budgetVars>>
    /\ PeerKept

(* --------------------------- aegis: audio loop ------------------------- *)
\* an add_chunk that returns the last chunk instead of the joined buffer
add_chunk_last_chunk(buf, count, pcm_bytes) ==
    IF pcm_bytes = <<>>
    THEN [complete |-> FALSE, audio |-> <<>>, buffer |-> buf, count |-> count]
    ELSE LET joined == buf \o pcm_bytes
             c == IF detect_silence(pcm_bytes, silence_threshold) THEN count + 1 ELSE 0
         IN  IF c >= silence_threshold_chunks
             THEN [complete |-> TRUE, audio |-> pcm_bytes, buffer |-> <<>>, count |-> 0]
             ELSE [complete |-> FALSE, audio |-> <<>>, buffer |-> joined, count |-> c]

\* AudioBuffer.add_chunk: [complete, audio, buffer, count] after the chunk
add_chunk(buf, count, pcm_bytes) ==
    IF pcm_bytes = <<>>
    THEN [complete |-> FALSE, audio |-> <<>>, buffer |-> buf, count |-> count]
    ELSE LET joined == buf \o pcm_bytes
             c == IF detect_silence(pcm_bytes, silence_threshold) THEN count + 1 ELSE 0
         IN  IF c >= silence_threshold_chunks
             THEN [complete |-> TRUE, audio |-> joined, buffer |-> <<>>, count |-> 0]
             ELSE [complete |-> FALSE, audio |-> <<>>, buffer |-> joined, count |-> c]

\* audio_ws, a binary frame f for which add_chunk raises struct.error in
\* detect_silence, the chunk already appended: except Exception logs and
\* sends an error message, the session task ends
AegisFrameError(f) ==
    /\ sys = "aegis" /\ pc = "recv" /\ inbox = "none"
    /\ Len(heard) < MaxFrames
    /\ f # <<>> /\ unpack_raises(f)
    /\ audio_buffer' = audio_buffer \o f
    /\ heard' = Append(heard, f)
    /\ sent' = Append(sent, ErrorMsg)
    /\ pc' = "closed"
    /\ UNCHANGED <<sys, harness, toolVars, regVars, sideVars, inbox, pcm_audio, silence_counter,
                   is_recording, recording_start, now, handVars, clientVars, pipeVars, segOut,
                   turnVars, budgetVars>>
    /\ PeerKept

\* audio_ws, a binary frame f received d ms after the previous one (the
\* handler reads no clock: now only records the time that has passed since
\* the first chunk of the buffer)
AegisFrame(f, d) ==
    /\ sys = "aegis" /\ pc = "recv"
    /\ Len(heard) < MaxFrames
    /\ ~unpack_raises(f)
    /\ LET r == add_chunk(audio_buffer, silence_counter, f)
           seen == Append(heard, f)
           t == IF heard # <<>> THEN Min(now + d, MaxClock) ELSE 0
       IN  /\ audio_buffer' = r.buffer
           /\ silence_counter' = r.count
           /\ now' = t
           /\ segOut' = [seen |-> seen, done |-> r.complete, audio |-> r.audio, elapsed |-> t]
           /\ IF r.complete /\ r.audio # <<>>
              THEN /\ audio_data' = r.audio
                   /\ via' = "silence"
                   /\ heard' = <<>>
                   /\ sent' = <<>>
                   /\ pc' = "stt"
              ELSE /\ heard' = IF r.complete THEN <<>> ELSE seen
                   /\ UNCHANGED <<handVars, sent, pc>>
    /\ UNCHANGED <<sys, harness, toolVars, regVars, sideVars, pcm_audio, is_recording, recording_start, clientVars,
                   pipeVars, turnVars, budgetVars>>
    /\ PeerKept

\* the frame is the next one the receive loop gets from the client
AegisBinary(f, d) == inbox = "none" /\ AegisFrame(f, d) /\ UNCHANGED inbox

\* audio_ws, text frame {"type": "reset"}
AegisReset ==
    /\ sys = "aegis" /\ pc = "recv"
    /\ conversation_history' = <<>>
    /\ audio_buffer' = <<>>
    /\ silence_counter' = 0
    /\ heard' = <<>>
    /\ sent' = <<ResetAck>>
    /\ inbox' = "none"
    /\ UNCHANGED <<sys, harness, toolVars, regVars, sideVars, pcm_audio, pc, is_recording, recording_start, now, handVars, messages,
                   tool_round, full_response, buffer, round_text, pipeVars, segOut, turnVars,
                   budgetVars>>
    /\ PeerKept

(* --------------------------- conversation loop ------------------------- *)
\* a trim that keeps the oldest entries
trim_history_keeps_oldest(h) ==
    IF Len(h) > max_history THEN SubSeq(h, 1, max_history) ELSE h

\* aegis ClaudeClient._trim_history
trim_history(h) ==
    IF Len(h) > max_history THEN SubSeq(h, Len(h) - max_history + 1, Len(h)) ELSE h

\* bridge get_response: "keep conversation history manageable"
bridge_trim(h) ==
    IF Len(h) > BRIDGE_HISTORY_LIMIT
    THEN SubSeq(h, Len(h) - BRIDGE_HISTORY_KEEP + 1, Len(h)) ELSE h

\* a tool loop that runs one round too many
LoopContinues_one_more(round) == round <= max_tool_rounds

\* for _ in range(max_tool_rounds): another request is made
LoopContinues(round) == round < max_tool_rounds

\* the consumer of the client's generator: the audio pipeline, or the text
\* entry point (aegis text_ws, bridge get_full_response)
Endpoint == IF harness \in {"chat", "tools", "route"} THEN "text" ELSE "audio"

\* what the environment offers under each harness
Texts == IF harness = "route" THEN RouteTexts ELSE UserTexts
FrameSet ==
    IF harness = "session" THEN Frames
    ELSE IF harness = "eos" THEN PlainFrames \cup {Short}
    ELSE IF harness = "bytes" THEN ByteFrames ELSE PlainFrames
StepSet == IF harness = "session" THEN TimeSteps ELSE PlainSteps
TurnBudget ==
    IF harness = "chat" THEN MaxChatTurns ELSE IF harness = "pipe" THEN MaxTurns ELSE 1
DeltaBudget ==
    IF harness = "pipe" THEN MaxDeltas ELSE IF harness = "split" THEN MaxSplitDeltas ELSE 1
ToolBudget ==
    IF harness \in {"chat", "tools", "route"} THEN MaxToolReplies
    ELSE IF harness = "pipe" THEN 1 ELSE 0

\* text deltas the provider may stream
PipeDeltas == { <<"b">>, <<"a", ".", " ", "b", ".", " ">> }
ChatDeltas == { <<"a", ".", " ">> }
SplitDeltas ==
    { <<c>> : c \in {"a", " ", ".", "?"} } \cup { <<".", " ">>, <<"a", ".">>, <<" ", "a">>, <<".", "a">> }
Deltas ==
    IF harness = "pipe" THEN PipeDeltas ELSE IF harness = "split" THEN SplitDeltas ELSE ChatDeltas

\* byte lengths synthesize() may return for a sentence; 0 is None
TtsLens(size) == IF harness = "split" THEN {size} ELSE {0, size, size + size \div 4}

\* the transport frames of one synthesized buffer of n bytes
AudioFrames(text, seq, n, size, pad) ==
    [k \in 1..Len(Chunks(n, size)) |->
        Audio(text, seq, IF pad THEN size ELSE Chunks(n, size)[k])]

RECURSIVE BridgeSpeak_last_first(_, _, _, _)
\* a pipeline that transmits the sentences of a batch last to first
BridgeSpeak_last_first(ss, r, i, base) ==
    IF i > Len(ss) THEN <<>>
    ELSE BridgeSpeak_last_first(ss, r, i + 1, base)
         \o (IF r[i] > 0
             THEN <<Status("speaking")>> \o AudioFrames(ss[i], base + i, r[i], chunk_size, FALSE)
             ELSE <<>>)

RECURSIVE BridgeSpeak_stop_at_failure(_, _, _, _)
\* a sentence loop that gives up at the first sentence without audio
BridgeSpeak_stop_at_failure(ss, r, i, base) ==
    IF i > Len(ss) \/ r[i] = 0 THEN <<>>
    ELSE <<Status("speaking")>> \o AudioFrames(ss[i], base + i, r[i], chunk_size, FALSE)
         \o BridgeSpeak_stop_at_failure(ss, r, i + 1, base)

RECURSIVE BridgeSpeak(_, _, _, _)
\* process_pipeline, for complete_sentence in sentences[:-1]: status
\* speaking, then the audio in chunks, for every sentence with audio
\* (base: the number of texts synthesized before in this turn)
BridgeSpeak(ss, r, i, base) ==
    IF i > Len(ss) THEN <<>>
    ELSE (IF r[i] > 0
          THEN <<Status("speaking")>> \o AudioFrames(ss[i], base + i, r[i], chunk_size, FALSE)
          ELSE <<>>) \o BridgeSpeak(ss, r, i + 1, base)

RECURSIVE AegisSpeak(_, _, _)
\* audio_ws: every synthesized sentence in 320-byte frames, the last padded
AegisSpeak(ss, r, i) ==
    IF i > Len(ss) THEN <<>>
    ELSE (IF r[i] > 0 THEN AudioFrames(ss[i], i, r[i], chunk_size_bytes, TRUE) ELSE <<>>)
         \o AegisSpeak(ss, r, i + 1)

(* ------------------------------ model routing --------------------------- *)
claude_haiku_model == "claude-haiku-4-5-20251001"
claude_opus_model == "claude-opus-4-6"
\* two of the OPUS_TRIGGERS stand for the list
OPUS_TRIGGERS == { <<"p", "l", "a", "n">>, <<"t", "r", "e", "n", "d">> }

\* str.lower() on the letters the texts use
lower(text) ==
    [i \in DOMAIN text |->
        IF text[i] = "P" THEN "p" ELSE IF text[i] = "T" THEN "t" ELSE text[i]]

\* trigger in text_lower
Contains(text, trigger) ==
    \E i \in 1..(Len(text) - Len(trigger) + 1) :
        SubSeq(text, i, i + Len(trigger) - 1) = trigger

\* select_model: Opus if a trigger occurs in the lower-cased text
select_model(user_text) ==
    IF \E trigger \in OPUS_TRIGGERS : Contains(lower(user_text), trigger)
    THEN claude_opus_model ELSE claude_haiku_model

(* ------------------------------ tool dispatch --------------------------- *)
\* names with a handler in the registry (HANDLERS / _HANDLERS); one stands
\* for all
HANDLERS == {"log_health"}

\* a response without a tool_use block
NoCall == [name |-> "none", outcome |-> "none", input_json |-> ""]
\* a tool_use block: the name the model asked for and what the handler does
\* with the arguments ("returns" a result, raises TypeError, raises another
\* exception)
KnownCall == [name |-> "log_health", outcome |-> "returns", input_json |-> "object"]
ToolCalls ==
    { KnownCall,
      [name |-> "no_such_tool", outcome |-> "returns", input_json |-> "object"],
      [name |-> "log_health", outcome |-> "type_error", input_json |-> "object"],
      [name |-> "log_health", outcome |-> "raises", input_json |-> "object"] }
\* tool_use blocks whose accumulated input_json is empty or is not valid JSON
InputCalls ==
    { [name |-> "log_health", outcome |-> "returns", input_json |-> ""],
      [name |-> "log_health", outcome |-> "returns", input_json |-> "broken"] }
Calls ==
    {NoCall} \cup (IF harness = "chat" THEN ToolCalls
                   ELSE IF harness = "tools"
                   THEN {KnownCall, [name |-> "log_health", outcome |-> "raises",
                                     input_json |-> "object"]} \cup InputCalls
                   ELSE {KnownCall})

\* tool_input = json.loads(tool["input_json"]) if tool["input_json"] else {},
\* and {} on JSONDecodeError
tool_input(input_json) == IF input_json = "object" THEN "arguments" ELSE "{}"

\* a tool loop that dispatches every block twice
Dispatch_twice(call, id) ==
    IF call = NoCall THEN <<>>
    ELSE <<[id |-> id, name |-> call.name, arguments |-> tool_input(call.input_json)],
           [id |-> id, name |-> call.name, arguments |-> tool_input(call.input_json)]>>

\* for tool in tool_use_blocks: the calls of execute_tool / dispatch_tool
\* made for the blocks of one stream (id: the block's id)
Dispatch(call, id) ==
    IF call = NoCall THEN <<>>
    ELSE <<[id |-> id, name |-> call.name, arguments |-> tool_input(call.input_json)]>>

\* bridge execute_tool: the JSON string returned, or an exception raised
execute_tool(name, outcome) ==
    IF name \notin HANDLERS THEN [raised |-> FALSE, payload |-> <<"error", "Unknown tool">>]
    ELSE IF outcome = "returns" THEN [raised |-> FALSE, payload |-> <<"result">>]
    ELSE [raised |-> TRUE, payload |-> <<>>]

\* aegis dispatch_tool: the JSON string returned
dispatch_tool(tool_name, outcome) ==
    IF tool_name \notin HANDLERS THEN [raised |-> FALSE, payload |-> <<"error", "Unknown tool">>]
    ELSE IF outcome = "returns" THEN [raised |-> FALSE, payload |-> <<"result">>]
    ELSE IF outcome = "type_error"
    THEN [raised |-> FALSE, payload |-> <<"error", "Invalid arguments">>]
    ELSE [raised |-> FALSE, payload |-> <<"error", "Tool execution failed">>]

\* the start of a turn: get_response / chat up to the first request
StartTurn(user_text) ==
    /\ conversation_history' =
          IF sys = "bridge" THEN Append(conversation_history, UserMessage(user_text))
          ELSE trim_history(Append(conversation_history, UserMessage(user_text)))
    /\ messages' = IF sys = "bridge" THEN conversation_history' ELSE messages
    /\ tool_round' = 0
    /\ full_response' = <<>>
    /\ buffer' = <<>>
    /\ round_text' = <<>>
    /\ sentence_buffer' = <<>>
    /\ response_text' = <<>>
    /\ first_audio_sent' = FALSE
    /\ requests' = 0
    /\ streamed' = <<>>
    /\ sentences' = <<>>
    /\ synth' = <<>>
    /\ pcm_audio' = <<>>
    /\ deltas' = 0
    /\ turns' = turns + 1
    /\ dispatched' = <<>>
    /\ model' = IF sys = "bridge" THEN select_model(user_text) ELSE "none"
    /\ request_models' = <<>>
    /\ pc' = "request"

\* a pipeline that plays the thinking tone before it looks at the transcript
SttEmpty_with_tone ==
    /\ pc = "stt"
    /\ pc' = "tail"
    /\ sent' = Append(sent, ThinkingTone)
    /\ UNCHANGED <<sys, harness, toolVars, regVars, sideVars, inbox, pcm_audio, audioVars, handVars, clientVars, pipeVars,
                   segVars, turnVars, budgetVars>>
    /\ PeerKept

\* process_pipeline / audio_ws: recognition returned no text
SttEmpty ==
    /\ pc = "stt"
    /\ pc' = "tail"
    /\ sent' = IF sys = "bridge" THEN sent ELSE Append(sent, ErrorMsg)
    /\ UNCHANGED <<sys, harness, toolVars, regVars, sideVars, inbox, pcm_audio, audioVars, handVars, clientVars, pipeVars, segVars, turnVars,
                   budgetVars>>
    /\ PeerKept

\* process_pipeline / audio_ws: recognition returned user_text
SttText(user_text) ==
    /\ pc = "stt"
    /\ turns < TurnBudget
    /\ StartTurn(user_text)
    /\ sent' = IF sys = "bridge" THEN Append(sent, ThinkingTone) ELSE sent
    /\ UNCHANGED <<sys, harness, regVars, sideVars, inbox, audioVars, handVars, segVars, tool_replies>>
    /\ PeerKept

\* the text entry point: aegis text_ws message, bridge get_full_response
ChatCall(user_text) ==
    /\ pc = "idle_text"
    /\ turns < TurnBudget
    /\ StartTurn(user_text)
    /\ sent' = <<>>
    /\ UNCHANGED <<sys, harness, regVars, sideVars, inbox, audioVars, handVars, segVars, tool_replies>>
    /\ PeerKept

\* the head of the tool loop: open the next stream or leave the loop
Request ==
    /\ pc = "request"
    /\ IF LoopContinues(tool_round)
       THEN /\ requests' = requests + 1
            /\ request_models' =
                  Append(request_models, IF sys = "bridge" THEN model ELSE claude_haiku_model)
            /\ round_text' = <<>>
            /\ buffer' = <<>>
            /\ pc' = "stream"
       ELSE /\ pc' = "finalize"
            /\ UNCHANGED <<requests, round_text, buffer, request_models>>
    /\ UNCHANGED <<sys, harness, dispatched, model, regVars, sideVars, inbox, pcm_audio, audioVars, handVars, conversation_history, messages, tool_round,
                   full_response, pipeVars, sent, segVars, streamed, sentences, synth, deltas,
                   budgetVars>>
    /\ PeerKept

\* bridge: a text delta is yielded; process_pipeline splits the sentence
\* buffer and speaks every complete sentence (r[i]: what synthesize
\* returns for the i-th of them)
BridgeDelta(chunk) ==
    /\ sys = "bridge" /\ pc = "stream"
    /\ deltas < DeltaBudget
    /\ LET sb == sentence_buffer \o chunk
           pieces == ReSplit(sb)
           spoken == IF Len(pieces) > 1 THEN NonBlank(SubSeq(pieces, 1, Len(pieces) - 1)) ELSE <<>>
       IN  /\ full_response' = full_response \o chunk
           /\ round_text' = round_text \o chunk
           /\ streamed' = streamed \o chunk
           /\ deltas' = deltas + 1
           /\ IF Endpoint = "audio"
              THEN \E r \in [1..Len(spoken) -> TtsLens(chunk_size)] :
                   /\ sentence_buffer' = IF Len(pieces) > 1 THEN pieces[Len(pieces)] ELSE sb
                   /\ sentences' = sentences \o spoken
                   /\ synth' = synth \o spoken
                   /\ pcm_audio' = pcm_audio \o r
                   /\ sent' = sent \o BridgeSpeak(spoken, r, 1, Len(synth))
                   /\ first_audio_sent' = (first_audio_sent \/ \E i \in DOMAIN r : r[i] > 0)
                   /\ UNCHANGED response_text
              ELSE /\ response_text' = response_text \o chunk
                   /\ UNCHANGED <<sentence_buffer, sentences, synth, pcm_audio, sent,
                                  first_audio_sent>>
    /\ UNCHANGED <<sys, harness, toolVars, regVars, sideVars, inbox, pc, audioVars, handVars, conversation_history, messages,
                   tool_round, buffer, segVars, requests, budgetVars>>
    /\ PeerKept

\* aegis: a text delta; chat yields the complete sentences to its consumer
AegisDelta(chunk) ==
    /\ sys = "aegis" /\ pc = "stream"
    /\ deltas < DeltaBudget
    /\ LET y == YieldSentences(buffer \o chunk)
       IN  /\ buffer' = y.rest
           /\ round_text' = round_text \o chunk
           /\ streamed' = streamed \o chunk
           /\ deltas' = deltas + 1
           /\ sentences' = sentences \o y.out
           /\ IF Endpoint = "audio"
              THEN /\ response_text' = response_text \o Flatten(y.out)
                   /\ UNCHANGED sent
              ELSE /\ sent' = sent \o [i \in 1..Len(y.out) |-> TextMsg(y.out[i])]
                   /\ UNCHANGED response_text
    /\ UNCHANGED <<sys, harness, toolVars, regVars, sideVars, inbox, pcm_audio, pc, audioVars, handVars, conversation_history, messages,
                   tool_round, full_response, sentence_buffer, first_audio_sent, segVars,
                   requests, synth, budgetVars>>
    /\ PeerKept

\* bridge: the stream ends; a requested tool is executed and its result
\* appended to the request's messages. An exception of execute_tool leaves
\* get_response: process_pipeline catches it and sends an error, the caller
\* of get_full_response receives it
BridgeStreamEnd(call) ==
    /\ sys = "bridge" /\ pc = "stream"
    /\ call # NoCall => tool_replies < ToolBudget
    /\ IF call = NoCall
       THEN /\ pc' = "finalize"
            /\ UNCHANGED <<messages, tool_round, tool_replies, sent>>
       ELSE LET result == execute_tool(call.name, call.outcome)
            IN  IF result.raised
                THEN /\ pc' = "tail"
                     /\ sent' = IF Endpoint = "audio" THEN Append(sent, ErrorMsg) ELSE sent
                     /\ tool_replies' = tool_replies + 1
                     /\ UNCHANGED <<messages, tool_round>>
                ELSE /\ messages' = messages \o <<AssistantMessage(round_text, TRUE),
                                                  ToolResults(tool_replies + 1, result.payload)>>
                     /\ tool_round' = tool_round + 1
                     /\ tool_replies' = tool_replies + 1
                     /\ pc' = "request"
                     /\ UNCHANGED sent
    /\ dispatched' = dispatched \o Dispatch(call, tool_replies + 1)
    /\ UNCHANGED <<sys, harness, model, request_models, regVars, sideVars, inbox, pcm_audio, audioVars, handVars, conversation_history,
                   full_response, buffer, round_text, pipeVars, segVars, turnVars, turns>>
    /\ PeerKept

\* aegis: the stream ends; the rest of the buffer is yielded, the assistant
\* message appended, tools executed and their results appended and trimmed
AegisStreamEnd(call) ==
    /\ sys = "aegis" /\ pc = "stream"
    /\ call # NoCall => tool_replies < ToolBudget
    /\ LET remaining == Strip(buffer)
           tool == call # NoCall
           result == dispatch_tool(call.name, call.outcome)
           out == IF remaining # <<>> THEN <<remaining>> ELSE <<>>
           h == Append(conversation_history, AssistantMessage(round_text, tool))
       IN  /\ sentences' = sentences \o out
           /\ IF Endpoint = "audio"
              THEN /\ response_text' = response_text \o Flatten(out)
                   /\ UNCHANGED sent
              ELSE /\ sent' = sent \o [i \in 1..Len(out) |-> TextMsg(out[i])]
                   /\ UNCHANGED response_text
           /\ IF tool
              THEN /\ conversation_history' =
                         trim_history(Append(h, ToolResults(tool_replies + 1, result.payload)))
                   /\ tool_round' = tool_round + 1
                   /\ tool_replies' = tool_replies + 1
                   /\ pc' = "request"
              ELSE /\ conversation_history' = h
                   /\ pc' = "finalize"
                   /\ UNCHANGED <<tool_round, tool_replies>>
    /\ dispatched' = dispatched \o Dispatch(call, tool_replies + 1)
    /\ UNCHANGED <<sys, harness, model, request_models, regVars, sideVars, inbox, pcm_audio, audioVars, handVars, messages, full_response, buffer,
                   round_text, sentence_buffer, first_audio_sent, segVars, requests, streamed,
                   synth, deltas, turns>>
    /\ PeerKept

\* BridgeFinalize with the completion message sent ahead of the remaining
\* audio and the chime
BridgeFinalize_done_first ==
    /\ sys = "bridge" /\ pc = "finalize"
    /\ conversation_history' =
          bridge_trim(Append(conversation_history, AssistantMessage(full_response, FALSE)))
    /\ IF Endpoint = "audio"
       THEN LET rest == Strip(sentence_buffer)
                said == IF rest # <<>> THEN <<rest>> ELSE <<>>
            IN  \E r \in [1..Len(said) -> TtsLens(chunk_size)] :
                /\ sentences' = sentences \o said
                /\ synth' = synth \o said
                /\ pcm_audio' = pcm_audio \o r
                /\ first_audio_sent' = (first_audio_sent \/ \E i \in DOMAIN r : r[i] > 0)
                /\ sent' = Append(sent, DoneMsg)
                           \o (IF said # <<>> /\ r[1] > 0
                               THEN AudioFrames(rest, Len(synth) + 1, r[1], chunk_size, FALSE)
                               ELSE <<>>)
                           \o <<SuccessChime>>
                /\ pc' = "tail"
       ELSE /\ pc' = "tail"
            /\ UNCHANGED <<sentences, synth, pcm_audio, first_audio_sent, sent>>
    /\ UNCHANGED <<sys, harness, toolVars, regVars, sideVars, inbox, audioVars, handVars, messages, tool_round, full_response,
                   buffer, round_text, sentence_buffer, response_text, segVars, requests,
                   streamed, deltas, budgetVars>>
    /\ PeerKept

\* bridge: get_response saves the reply and trims; process_pipeline speaks
\* the remaining text, sends the chime and "done"
BridgeFinalize ==
    /\ sys = "bridge" /\ pc = "finalize"
    /\ conversation_history' =
          bridge_trim(Append(conversation_history, AssistantMessage(full_response, FALSE)))
    /\ IF Endpoint = "audio"
       THEN LET rest == Strip(sentence_buffer)
                said == IF rest # <<>> THEN <<rest>> ELSE <<>>
            IN  \E r \in [1..Len(said) -> TtsLens(chunk_size)] :
                /\ sentences' = sentences \o said
                /\ synth' = synth \o said
                /\ pcm_audio' = pcm_audio \o r
                /\ first_audio_sent' = (first_audio_sent \/ \E i \in DOMAIN r : r[i] > 0)
                /\ sent' = sent
                           \o (IF said # <<>> /\ r[1] > 0
                               THEN AudioFrames(rest, Len(synth) + 1, r[1], chunk_size, FALSE)
                               ELSE <<>>)
                           \o <<SuccessChime, DoneMsg>>
                /\ pc' = "tail"
       ELSE /\ pc' = "tail"
            /\ UNCHANGED <<sentences, synth, pcm_audio, first_audio_sent, sent>>
    /\ UNCHANGED <<sys, harness, toolVars, regVars, sideVars, inbox, audioVars, handVars, messages, tool_round, full_response,
                   buffer, round_text, sentence_buffer, response_text, segVars, requests,
                   streamed, deltas, budgetVars>>
    /\ PeerKept

\* TTSEngine.synthesize_sentences: the texts synthesized for a reply
synthesize_sentences(text) == NonBlank(ReSplit(Strip(text)))

\* aegis: the generator is exhausted; audio_ws synthesizes the joined reply
\* and streams it, text_ws sends the final message
AegisFinalize ==
    /\ sys = "aegis" /\ pc = "finalize"
    /\ IF Endpoint = "audio"
       THEN LET said == synthesize_sentences(response_text)
            IN  \E r \in [1..Len(said) -> TtsLens(chunk_size_bytes)] :
                /\ synth' = synth \o said
                /\ pcm_audio' = pcm_audio \o r
                /\ sent' = IF \E i \in DOMAIN r : r[i] > 0
                           THEN sent \o AegisSpeak(said, r, 1)
                           ELSE Append(sent, ErrorMsg)
                /\ pc' = "tail"
       ELSE /\ sent' = Append(sent, TextDone)
            /\ pc' = "tail"
            /\ UNCHANGED <<synth, pcm_audio>>
    /\ UNCHANGED <<sys, harness, toolVars, regVars, sideVars, inbox, audioVars, handVars, clientVars, pipeVars, segVars, requests,
                   streamed, sentences, deltas, budgetVars>>
    /\ PeerKept

\* the model provider fails during a stream
LlmError ==
    /\ pc = "stream"
    /\ IF sys = "bridge"
       THEN IF Endpoint = "audio"
            THEN /\ sent' = Append(sent, ErrorMsg)
                 /\ pc' = "tail"
            ELSE /\ pc' = "tail"
                 /\ UNCHANGED sent
       ELSE IF Endpoint = "audio"
            THEN /\ sent' = Append(sent, ErrorMsg)
                 /\ pc' = "closed"
            ELSE /\ pc' = "closed"
                 /\ UNCHANGED sent
    /\ UNCHANGED <<sys, harness, toolVars, regVars, sideVars, inbox, pcm_audio, audioVars, handVars, clientVars, pipeVars, segVars, turnVars,
                   budgetVars>>
    /\ PeerKept

\* the turn's handler returns to the receive loop and its locals go out of
\* scope; the bridge audio loop first resets the recording and reports idle
EndTurn ==
    /\ pc = "tail"
    /\ IF sys = "bridge" /\ Endpoint = "audio"
       THEN /\ audio_buffer' = <<>>
            /\ silence_counter' = 0
            /\ is_recording' = FALSE
            /\ heard' = <<>>
            /\ sent' = <<Status("idle")>>
       ELSE /\ sent' = <<>>
            /\ UNCHANGED <<audio_buffer, silence_counter, is_recording, heard>>
    /\ pc' = IF Endpoint = "audio" THEN "recv" ELSE "idle_text"
    /\ audio_data' = <<>>
    /\ via' = "none"
    /\ segOut' = NoOut
    /\ messages' = <<>>
    /\ tool_round' = 0
    /\ full_response' = <<>>
    /\ buffer' = <<>>
    /\ round_text' = <<>>
    /\ sentence_buffer' = <<>>
    /\ response_text' = <<>>
    /\ first_audio_sent' = FALSE
    /\ requests' = 0
    /\ streamed' = <<>>
    /\ sentences' = <<>>
    /\ synth' = <<>>
    /\ pcm_audio' = <<>>
    /\ deltas' = 0
    /\ dispatched' = <<>>
    /\ model' = "none"
    /\ request_models' = <<>>
    /\ UNCHANGED <<sys, harness, regVars, sideVars, inbox, recording_start, now, conversation_history, budgetVars>>
    /\ PeerKept

\* the client disconnects while the session waits for a frame
Disconnect ==
    /\ pc = "recv" /\ inbox = "none"
    /\ pc' = "closed"
    /\ connections' = pop(connections, client_ids[1])
    /\ UNCHANGED <<sys, harness, toolVars, client_ids, sideVars, inbox, pcm_audio, audioVars, handVars, clientVars, pipeVars, sent, segVars,
                   turnVars, budgetVars>>
    /\ PeerKept

\* the client sends {"type": "reset"} while the session task is inside a
\* turn: the frame waits until the task calls websocket.receive() again
ClientSends ==
    /\ pc \in {"stt", "request", "stream", "finalize", "tail"}
    /\ inbox = "none"
    /\ inbox' = "reset"
    /\ UNCHANGED <<sys, harness, toolVars, regVars, sideVars, pc, audioVars, handVars, clientVars, pipeVars, sent, segVars,
                   turnVars, budgetVars, pcm_audio>>
    /\ PeerKept

\* a frame of speech unlike the frames sent between turns, so that it can be
\* told apart in an utterance
LateFrame == <<2500, 2500, 2500, 2500>>

\* the client sends a binary frame while the session task is inside a turn:
\* the frame waits until the task calls websocket.receive() again
ClientSendsAudio ==
    /\ pc \in {"stt", "request", "stream", "finalize", "tail"}
    /\ inbox = "none"
    /\ inbox' = "audio"
    /\ UNCHANGED <<sys, harness, toolVars, regVars, sideVars, pc, audioVars, handVars, clientVars, pipeVars, sent, segVars,
                   turnVars, budgetVars, pcm_audio>>
    /\ PeerKept

\* the receive loop gets the frame that was sent during the turn and
\* handles it as any binary frame
QueuedBinary(d) ==
    /\ inbox = "audio"
    /\ inbox' = "none"
    /\ BridgeFrame(LateFrame, d) \/ AegisFrame(LateFrame, d)

(* ------------------------------ text frames ---------------------------- *)
\* text frames other than reset and end_of_speech: what json.loads makes of
\* the text ("invalid": it raises JSONDecodeError; "object": a dict;
\* "array": a list, standing for every JSON value that is not an object)
\* and the value under "type" of an object
TextFrames ==
    { [json |-> "invalid", type |-> "none"],
      [json |-> "array", type |-> "none"],
      [json |-> "object", type |-> "none"],
      [json |-> "object", type |-> "bogus"],
      [json |-> "object", type |-> "ping"] }

\* the control messages each server acts on
KnownTypes == IF sys = "bridge" THEN {"end_of_speech", "reset"} ELSE {"reset", "ping"}

\* msg.get("type"): an attribute the parsed value has only if it is a dict
has_get(frame) == frame.json = "object"

\* audio_websocket / audio_ws, a text frame: a JSONDecodeError is swallowed;
\* msg.get on a value that is not a dict raises AttributeError, which leaves
\* the receive loop through the handler's except Exception (aegis reports
\* it to the client first); an object is looked up by its type
TextFrame(frame) ==
    /\ pc = "recv" /\ inbox = "none"
    /\ IF frame.json = "invalid"
       THEN UNCHANGED <<pc, sent>>
       ELSE IF ~has_get(frame)
       THEN /\ pc' = "closed"
            /\ sent' = IF sys = "aegis" THEN Append(sent, ErrorMsg) ELSE sent
       ELSE IF sys = "aegis" /\ frame.type = "ping"
       THEN /\ Cardinality({i \in DOMAIN sent : sent[i] = Pong}) < MaxPings
            /\ sent' = Append(sent, Pong)
            /\ UNCHANGED pc
       ELSE UNCHANGED <<pc, sent>>
    /\ connections' = IF pc' = "closed" THEN pop(connections, client_ids[1]) ELSE connections
    /\ UNCHANGED <<sys, harness, toolVars, client_ids, sideVars, inbox, pcm_audio, audioVars, handVars, clientVars, pipeVars,
                   segVars, turnVars, budgetVars>>
    /\ PeerKept

\* the client sends {"type": "end_of_speech"} on the audio connection
ClientEndOfSpeech ==
    /\ pc = "recv" /\ inbox = "none"
    /\ inbox' = "end_of_speech"
    /\ UNCHANGED <<sys, harness, toolVars, regVars, sideVars, pc, audioVars, handVars,
                   clientVars, pipeVars, sent, segVars, turnVars, budgetVars, pcm_audio, peer>>

\* audio_websocket / audio_ws receive the end_of_speech frame: the bridge
\* runs the pipeline on a buffer of more than 3200 bytes and does nothing
\* otherwise; aegis has no branch for the type and does nothing
EndOfSpeechFrame ==
    /\ pc = "recv" /\ inbox = "end_of_speech"
    /\ inbox' = "none"
    /\ IF sys = "bridge" /\ ByteLen(audio_buffer) > BYTES_MIN
       THEN /\ sent' = Append(sent, Status("processing"))
            /\ audio_data' = audio_buffer
            /\ via' = "end_of_speech"
            /\ pc' = "stt"
       ELSE UNCHANGED <<sent, handVars, pc>>
    /\ UNCHANGED <<sys, harness, toolVars, regVars, sideVars, pcm_audio, audioVars, clientVars,
                   pipeVars, segVars, turnVars, budgetVars>>
    /\ PeerKept

(* ------------------------------ rate limiter --------------------------- *)
\* everything the sessions of the audio and text endpoints hold
sessionVars == <<sys, harness, pc, audioVars, handVars, clientVars, pipeVars, sent, segVars,
                 turnVars, budgetVars, inbox, pcm_audio, peer, toolVars, regVars>>

requests_per_minute == 60
window_seconds == 60
\* seconds between two looks at time.time()
WallSteps == {30}
FirstIp == "203.0.113.5"

\* [t for t in self.request_times[client_ip] if t > cutoff]
clean(times, now_s) == SelectSeq(times, LAMBDA t : t > now_s - window_seconds)

\* a limiter that lets the request through when the count equals the limit
is_allowed_one_over(times, now_s) ==
    LET kept == clean(times, now_s)
    IN  IF Len(kept) > requests_per_minute
        THEN [allowed |-> FALSE, times |-> kept]
        ELSE [allowed |-> TRUE, times |-> Append(kept, now_s)]

\* RateLimiter.is_allowed: the verdict and the list stored for the address
is_allowed(times, now_s) ==
    LET kept == clean(times, now_s)
    IN  IF Len(kept) >= requests_per_minute
        THEN [allowed |-> FALSE, times |-> kept]
        ELSE [allowed |-> TRUE, times |-> Append(kept, now_s)]

\* RateLimiter.__call__: a request from client_ip arrives
LimiterCall(client_ip) ==
    /\ client_ip # FirstIp => Len(request_times[client_ip]) < MaxOtherRequests
    /\ request_times' =
          [request_times EXCEPT ![client_ip] = is_allowed(@, wall_time).times]
    /\ UNCHANGED <<wall_time, executorVars, sessionVars, otherVars>>

\* time passes
WallTick(d) ==
    /\ wall_time + d <= MaxWall
    /\ wall_time' = wall_time + d
    /\ UNCHANGED <<request_times, executorVars, sessionVars, otherVars>>

(* ------------------------------ latency stats -------------------------- *)
\* a log that keeps the first 100 samples
log_latency_keeps_first(stats, stage, ms) ==
    LET all == Append(stats[stage], ms)
    IN  [stats EXCEPT ![stage] =
            IF Len(all) > LATENCY_KEEP THEN SubSeq(all, 1, LATENCY_KEEP) ELSE all]

\* log_latency: append, then keep the last 100
log_latency(stats, stage, ms) ==
    LET all == Append(stats[stage], ms)
    IN  [stats EXCEPT ![stage] =
            IF Len(all) > LATENCY_KEEP
            THEN SubSeq(all, Len(all) - LATENCY_KEEP + 1, Len(all)) ELSE all]

\* api_status: the "count" reported for a stage (0: the stage is left out)
latency_count(stage) == Len(latency_stats[stage])

\* a latency is recorded; the k-th sample of a stage has the value k, so
\* that its place in the recording order can be told
LogLatency(stage) ==
    /\ recorded[stage] < MaxRecords
    /\ latency_stats' = log_latency(latency_stats, stage, recorded[stage] + 1)
    /\ recorded' = [recorded EXCEPT ![stage] = @ + 1]
    /\ UNCHANGED <<limiterVars, executorVars, sessionVars, dashVars, taskChatVars>>

(* ------------------------------- dashboard ----------------------------- *)
\* what a dashboard action leaves alone
dashFrame == <<sys, harness, toolVars, client_ids, limiterVars, executorVars, statsVars, taskChatVars,
               inbox, pcm_audio, audioVars, handVars, clientVars, pipeVars, sent, segVars,
               turnVars, budgetVars, peer>>

\* dashboard_websocket: accept, dashboard_clients.add(websocket); during a
\* broadcast the iteration may or may not come to reach the new entry
DashConnect(c) ==
    /\ c \notin dashboard_clients /\ c \notin dash_closed
    /\ dashboard_clients' = dashboard_clients \cup {c}
    /\ \E reached \in BOOLEAN :
          bcast' = IF bcast.pc = "sending" /\ reached
                   THEN [bcast EXCEPT !.todo = @ \cup {c}] ELSE bcast
    /\ UNCHANGED <<delivered, dash_closed, pc, connections, dashFrame>>

\* dashboard_websocket, finally: dashboard_clients.discard(websocket); a
\* socket removed by a broadcast ends here too, the discard finding nothing
DashDisconnect(c) ==
    /\ c \notin dash_closed
    /\ c \in dashboard_clients \/ c \in bcast.disconnected
    /\ dash_closed' = dash_closed \cup {c}
    /\ dashboard_clients' = dashboard_clients \ {c}
    /\ bcast' = [bcast EXCEPT !.todo = @ \ {c}, !.throughout = @ \ {c}]
    /\ UNCHANGED <<delivered, pc, connections, dashFrame>>

\* the audio session calls broadcast_to_dashboard: it returns at once with
\* no client, else the for loop takes a first client and awaits its send
BroadcastBegin ==
    /\ sys = "bridge" /\ pc = "recv" /\ bcast.pc = "idle"
    /\ bcast.calls < MaxBroadcasts
    /\ delivered' = [c \in DashClients |-> 0]
    /\ IF dashboard_clients = {}
       THEN bcast' = [NoBroadcast EXCEPT !.calls = bcast.calls + 1]
       ELSE \E c \in dashboard_clients :
               bcast' = [pc |-> "sending", used |-> Cardinality(dashboard_clients),
                         todo |-> dashboard_clients \ {c}, cur |-> c, disconnected |-> {},
                         throughout |-> dashboard_clients, calls |-> bcast.calls + 1]
    /\ UNCHANGED <<dashboard_clients, dash_closed, pc, connections, dashFrame>>

\* client.send_json returns (ok) or raises; then the for loop asks the set
\* iterator for the next client: it raises RuntimeError if the set changed
\* size, which leaves broadcast_to_dashboard and, in audio_websocket, ends
\* the session; at the end of the set the failed clients are removed
BroadcastStep(ok) ==
    /\ bcast.pc = "sending"
    /\ delivered' = IF ok THEN [delivered EXCEPT ![bcast.cur] = @ + 1] ELSE delivered
    /\ LET failed == IF ok THEN bcast.disconnected ELSE bcast.disconnected \cup {bcast.cur}
       IN  IF Cardinality(dashboard_clients) # bcast.used
           THEN /\ bcast' = [bcast EXCEPT !.pc = "raised", !.disconnected = failed, !.cur = 0]
                /\ pc' = "closed"
                /\ connections' = pop(connections, client_ids[1])
                /\ UNCHANGED dashboard_clients
           ELSE IF bcast.todo = {}
           THEN /\ bcast' = [bcast EXCEPT !.pc = "idle", !.disconnected = failed, !.cur = 0]
                /\ dashboard_clients' = dashboard_clients \ failed
                /\ UNCHANGED <<pc, connections>>
           ELSE /\ \E c \in bcast.todo :
                      bcast' = [bcast EXCEPT !.cur = c, !.todo = @ \ {c}, !.disconnected = failed]
                /\ UNCHANGED <<dashboard_clients, pc, connections>>
    /\ UNCHANGED <<dash_closed, dashFrame>>

(* ------------------------------ task executor -------------------------- *)
\* a query that also returns the tasks that failed
list_tasks_with_failed(status) == {id \in TaskIds : status[id] \in {"pending", "failed"}}

\* manager.list_tasks(status="pending"): the ids of the pending rows
list_tasks(status) == {id \in TaskIds : status[id] = "pending"}

\* _poll_and_execute: the pending tasks that get a background task (those
\* not in running_tasks; all tasks are of type oneshot)
Launched == list_tasks(task_status) \ running_tasks

\* _poll_and_execute: create_task(_execute_task(...)) for every launched id
Poll ==
    /\ running_tasks' = running_tasks \cup Launched
    /\ bg_task' = [id \in TaskIds |-> IF id \in Launched THEN "created" ELSE bg_task[id]]

\* TaskManager.create_task: a row is inserted with status pending
AddTask(id) ==
    /\ task_status[id] = "none"
    /\ task_status' = [task_status EXCEPT ![id] = "pending"]
    /\ UNCHANGED <<is_running, running_tasks, bg_task, start_pc, stop_pc, runs,
                   limiterVars, sessionVars, otherVars>>

\* start(), first step, before stop() is called: is_running = True, the
\* first poll, then the sleep
StartCall ==
    /\ start_pc = "unstarted" /\ stop_pc = "idle"
    /\ is_running' = TRUE
    /\ Poll
    /\ start_pc' = "sleeping"
    /\ UNCHANGED <<task_status, stop_pc, runs, limiterVars, sessionVars, otherVars>>

\* start(): the sleep is over; while self.is_running: poll and sleep again
Wake ==
    /\ start_pc = "sleeping"
    /\ IF is_running
       THEN Poll /\ UNCHANGED start_pc
       ELSE start_pc' = "exited" /\ UNCHANGED <<running_tasks, bg_task>>
    /\ UNCHANGED <<is_running, task_status, stop_pc, runs, limiterVars, sessionVars, otherVars>>

\* an entry of the executor client's conversation_history
TaskMessage(role, id) == [role |-> role, task |-> id]

\* _execute_task, first step: update_status(in_progress), then
\* self.client.chat(prompt) appends the prompt to the history of the one
\* client of the executor, trims it and sends it; the task waits for the
\* stream
BgBegin(id) ==
    /\ bg_task[id] = "created"
    /\ task_status' = [task_status EXCEPT ![id] = "in_progress"]
    /\ runs' = [runs EXCEPT ![id] = @ + 1]
    /\ bg_task' = [bg_task EXCEPT ![id] = "chat"]
    /\ client_history' = trim_history(Append(client_history, TaskMessage("user", id)))
    /\ task_sent' = [task_sent EXCEPT ![id] = client_history']
    /\ UNCHANGED <<is_running, running_tasks, start_pc, stop_pc, limiterVars, sessionVars,
                   statsVars, dashVars>>

\* _execute_task: chat returned (completed), having appended the reply to
\* the client's history, or raised (failed); the done callback is scheduled
BgFinish(id, ok) ==
    /\ bg_task[id] = "chat"
    /\ task_status' = [task_status EXCEPT ![id] = IF ok THEN "completed" ELSE "failed"]
    /\ bg_task' = [bg_task EXCEPT ![id] = "finished_cb"]
    /\ client_history' = IF ok THEN Append(client_history, TaskMessage("assistant", id))
                         ELSE client_history
    /\ UNCHANGED <<is_running, running_tasks, start_pc, stop_pc, runs, limiterVars,
                   sessionVars, statsVars, dashVars, task_sent>>

\* a cancelled background task gets its next step: inside _execute_task
\* the CancelledError handler records failed; a task that had not started
\* ends cancelled without entering the coroutine
BgCancelled(id) ==
    /\ bg_task[id] \in {"cancelling", "cancel_unstarted"}
    /\ IF bg_task[id] = "cancelling"
       THEN /\ task_status' = [task_status EXCEPT ![id] = "failed"]
            /\ bg_task' = [bg_task EXCEPT ![id] = "finished_cb"]
       ELSE /\ bg_task' = [bg_task EXCEPT ![id] = "cancelled_cb"]
            /\ UNCHANGED task_status
    /\ UNCHANGED <<is_running, running_tasks, start_pc, stop_pc, runs, limiterVars,
                   sessionVars, otherVars>>

\* _cleanup_task, the done callback
Cleanup(id) ==
    /\ bg_task[id] \in {"finished_cb", "cancelled_cb"}
    /\ running_tasks' = running_tasks \ {id}
    /\ bg_task' = [bg_task EXCEPT ![id] = IF @ = "finished_cb" THEN "finished" ELSE "cancelled"]
    /\ UNCHANGED <<is_running, task_status, start_pc, stop_pc, runs, limiterVars,
                   sessionVars, otherVars>>

\* task.cancel() on the task of id
cancel(state) ==
    IF state = "created" THEN "cancel_unstarted"
    ELSE IF state = "chat" THEN "cancelling" ELSE state

\* stop(), up to the gather: is_running = False, every running task is
\* cancelled; with nothing running it returns at once
StopCall ==
    /\ stop_pc = "idle"
    /\ is_running' = FALSE
    /\ bg_task' = [id \in TaskIds |->
                      IF id \in running_tasks THEN cancel(bg_task[id]) ELSE bg_task[id]]
    /\ stop_pc' = IF running_tasks = {} THEN "returned" ELSE "gathering"
    /\ UNCHANGED <<running_tasks, task_status, start_pc, runs, limiterVars, sessionVars, otherVars>>

\* stop(): the gather is over, running_tasks.clear()
StopReturn ==
    /\ stop_pc = "gathering"
    /\ \A id \in TaskIds : bg_task[id] \notin {"cancelling", "cancel_unstarted"}
    /\ running_tasks' = {}
    /\ stop_pc' = "returned"
    /\ UNCHANGED <<is_running, task_status, bg_task, start_pc, runs, limiterVars,
                   sessionVars, otherVars>>

(* -------------------------- a second connection ------------------------ *)
\* a step of the second connection's task that leaves it in state p: it
\* writes its own locals and its own client object, and this connection
\* sees the history of that client only if it holds the same object
PeerStep(p) ==
    /\ peer.open
    /\ peer' = p
    /\ conversation_history' =
          IF get_llm_client(1) = get_llm_client(2) THEN p.conversation_history
          ELSE conversation_history
    /\ connections' = IF p.open THEN connections ELSE pop(connections, client_ids[2])
    /\ UNCHANGED <<sys, harness, toolVars, client_ids, sideVars, pc, audio_buffer, silence_counter, is_recording,
                   recording_start, now, handVars, messages, tool_round, full_response,
                   buffer, round_text, pipeVars, sent, segVars, turnVars, budgetVars,
                   inbox, pcm_audio>>

\* the second connection receives a binary frame
PeerBinary(f) ==
    /\ Len(peer.audio_buffer) < MaxPeerFrames * Len(f)
    /\ PeerStep([peer EXCEPT
                   !.audio_buffer = @ \o f,
                   !.silence_counter =
                       count_silence(@, detect_silence(f, DETECT_THRESHOLD)),
                   !.is_recording = TRUE])

\* the second connection completes a turn on its recording: its client
\* records the user text and the reply, its task clears the recording
PeerTurn(user_text) ==
    /\ peer.audio_buffer # <<>>
    /\ Len(peer.conversation_history) < 2 * MaxPeerTurns
    /\ PeerStep([peer EXCEPT
                   !.conversation_history =
                       @ \o <<UserMessage(user_text), AssistantMessage(<<"o", "k">>, FALSE)>>,
                   !.audio_buffer = <<>>,
                   !.silence_counter = 0,
                   !.is_recording = FALSE])

\* the second connection handles {"type": "reset"}
PeerReset ==
    /\ peer # NewSession
    /\ PeerStep([peer EXCEPT
                   !.conversation_history = <<>>,
                   !.audio_buffer = <<>>,
                   !.silence_counter = 0,
                   !.is_recording = FALSE])

\* the second connection's client disconnects
PeerDisconnect == PeerStep([peer EXCEPT !.open = FALSE])

\* a new client connects in place of the second connection: accept, the
\* client_id, fresh locals, connections[client_id] = {...}
PeerConnect(ids) ==
    /\ sys = "bridge" /\ ~peer.open
    /\ ids[1] = client_ids[1]
    /\ client_ids' = ids
    /\ connections' = connections \cup {ids[2]}
    /\ peer' = NewSession
    /\ UNCHANGED <<sys, harness, toolVars, sideVars, pc, audioVars, handVars, clientVars,
                   pipeVars, sent, segVars, turnVars, budgetVars, inbox, pcm_audio>>

PeerActs ==
    \/ \E f \in PlainFrames : PeerBinary(f)
    \/ \E t \in PeerTexts : PeerTurn(t)
    \/ PeerReset
    \/ PeerDisconnect

(* ---------------------------- specifications --------------------------- *)
Conversation ==
    \/ Request
    \/ \E chunk \in Deltas : BridgeDelta(chunk)
    \/ \E chunk \in Deltas : AegisDelta(chunk)
    \/ \E call \in Calls : BridgeStreamEnd(call)
    \/ \E call \in Calls : AegisStreamEnd(call)
    \/ BridgeFinalize
    \/ AegisFinalize

Next ==
    \/ \E f \in FrameSet, d \in StepSet : BridgeBinary(f, d)
    \/ BridgeEndOfSpeech
    \/ BridgeReset
    \/ \E f \in FrameSet, d \in StepSet : AegisBinary(f, d)
    \/ AegisReset
    \/ SttEmpty
    \/ \E t \in Texts : SttText(t)
    \/ Conversation
    \/ LlmError
    \/ EndTurn
    \/ Disconnect

Spec == Init /\ [][Next]_vars

\* an audio session whose replies are rich and whose audio is plain: the
\* client sends frames only, at a steady pace
NextPipe ==
    \/ \E f \in FrameSet, d \in StepSet : BridgeBinary(f, d)
    \/ \E f \in FrameSet, d \in StepSet : AegisBinary(f, d)
    \/ SttEmpty
    \/ \E t \in Texts : SttText(t)
    \/ Conversation
    \/ LlmError
    \/ EndTurn

InitPipe ==
    /\ harness = "pipe"
    /\ InitCommon
    /\ pc = "recv"
    /\ sent = IF sys = "bridge" THEN <<Connected>> ELSE <<>>

SpecPipe == InitPipe /\ [][NextPipe]_vars

\* an audio session whose reply streams are split into sentences
InitSplit ==
    /\ harness = "split"
    /\ InitCommon
    /\ pc = "recv"
    /\ sent = IF sys = "bridge" THEN <<Connected>> ELSE <<>>

SpecSplit == InitSplit /\ [][NextPipe]_vars

\* two audio connections to one server
InitPair ==
    /\ harness = "pair"
    /\ InitCommon
    /\ pc = "recv"
    /\ sent = IF sys = "bridge" THEN <<Connected>> ELSE <<>>

NextPair ==
    \/ \E f \in FrameSet, d \in StepSet : BridgeBinary(f, d)
    \/ BridgeReset
    \/ \E f \in FrameSet, d \in StepSet : AegisBinary(f, d)
    \/ AegisReset
    \/ \E t \in Texts : SttText(t)
    \/ Conversation
    \/ EndTurn
    \/ Disconnect
    \/ \E f \in PlainFrames : PeerBinary(f)
    \/ \E t \in PeerTexts : PeerTurn(t)
    \/ PeerReset
    \/ PeerDisconnect

SpecPair == InitPair /\ [][NextPair]_vars

\* an audio session whose client also sends other text frames
InitText ==
    /\ harness = "text"
    /\ InitCommon
    /\ pc = "recv"
    /\ sent = IF sys = "bridge" THEN <<Connected>> ELSE <<>>

NextText ==
    \/ \E f \in FrameSet, d \in StepSet : BridgeBinary(f, d)
    \/ BridgeEndOfSpeech
    \/ BridgeReset
    \/ \E f \in FrameSet, d \in StepSet : AegisBinary(f, d)
    \/ AegisReset
    \/ \E t \in Texts : SttText(t)
    \/ Conversation
    \/ EndTurn
    \/ \E frame \in TextFrames : TextFrame(frame)

SpecText == InitText /\ [][NextText]_vars

\* two audio connections that come and go, with and without a client
\* address
InitStatus ==
    /\ harness = "status"
    /\ InitCommon
    /\ pc = "recv"
    /\ sent = IF sys = "bridge" THEN <<Connected>> ELSE <<>>

NextStatus ==
    \/ \E f \in FrameSet, d \in StepSet : BridgeBinary(f, d)
    \/ \E f \in FrameSet, d \in StepSet : AegisBinary(f, d)
    \/ \E t \in Texts : SttText(t)
    \/ Conversation
    \/ LlmError
    \/ EndTurn
    \/ Disconnect
    \/ \E frame \in TextFrames : TextFrame(frame)
    \/ \E f \in PlainFrames : PeerBinary(f)
    \/ PeerDisconnect
    \/ \E ids \in ClientIds : PeerConnect(ids)

SpecStatus == InitStatus /\ [][NextStatus]_vars

\* the latency log of the bridge
InitStats ==
    /\ harness = "stats"
    /\ InitCommon
    /\ sys = "bridge"
    /\ pc = "recv"
    /\ sent = <<Connected>>

NextStats == \E stage \in Stages : LogLatency(stage)

SpecStats == InitStats /\ [][NextStats]_vars

\* the rate limiter of the aegis HTTP endpoints
InitLimiter ==
    /\ harness = "limiter"
    /\ InitCommon
    /\ pc = "recv"
    /\ sent = IF sys = "bridge" THEN <<Connected>> ELSE <<>>

NextLimiter ==
    \/ \E client_ip \in ClientIps : LimiterCall(client_ip)
    \/ \E d \in WallSteps : WallTick(d)

SpecLimiter == InitLimiter /\ [][NextLimiter]_vars

\* an audio session whose client ends its recordings by end_of_speech
InitEos ==
    /\ harness = "eos"
    /\ InitCommon
    /\ pc = "recv"
    /\ sent = IF sys = "bridge" THEN <<Connected>> ELSE <<>>

NextEos ==
    \/ \E f \in FrameSet, d \in StepSet : BridgeBinary(f, d)
    \/ \E f \in FrameSet, d \in StepSet : AegisBinary(f, d)
    \/ ClientEndOfSpeech
    \/ EndOfSpeechFrame
    \/ SttEmpty
    \/ \E t \in Texts : SttText(t)
    \/ Conversation
    \/ LlmError
    \/ EndTurn

SpecEos == InitEos /\ [][NextEos]_vars

\* an audio session whose client keeps sending audio during a turn
InitLate ==
    /\ harness = "late"
    /\ InitCommon
    /\ pc = "recv"
    /\ sent = IF sys = "bridge" THEN <<Connected>> ELSE <<>>

NextLate ==
    \/ \E f \in FrameSet, d \in StepSet : BridgeBinary(f, d)
    \/ \E f \in FrameSet, d \in StepSet : AegisBinary(f, d)
    \/ SttEmpty
    \/ \E t \in Texts : SttText(t)
    \/ Conversation
    \/ LlmError
    \/ EndTurn
    \/ ClientSendsAudio
    \/ \E d \in StepSet : QueuedBinary(d)

SpecLate == InitLate /\ [][NextLate]_vars

\* an audio session whose client sends binary frames of any byte length
InitBytes ==
    /\ harness = "bytes"
    /\ InitCommon
    /\ pc = "recv"
    /\ sent = IF sys = "bridge" THEN <<Connected>> ELSE <<>>

NextBytes ==
    \/ \E f \in FrameSet, d \in StepSet : BridgeBinary(f, d)
    \/ \E f \in FrameSet, d \in StepSet : BridgeFrameError(f, d)
    \/ \E f \in FrameSet, d \in StepSet : AegisBinary(f, d)
    \/ \E f \in FrameSet : AegisFrameError(f)
    \/ SttEmpty
    \/ \E t \in Texts : SttText(t)
    \/ Conversation
    \/ LlmError
    \/ EndTurn

SpecBytes == InitBytes /\ [][NextBytes]_vars

\* the dashboard registry and the broadcasts of a bridge audio session
InitDash ==
    /\ harness = "dash"
    /\ InitCommon
    /\ sys = "bridge"
    /\ pc = "recv"
    /\ sent = <<Connected>>

NextDash ==
    \/ \E c \in DashClients : DashConnect(c)
    \/ \E c \in DashClients : DashDisconnect(c)
    \/ BroadcastBegin
    \/ \E ok \in BOOLEAN : BroadcastStep(ok)

SpecDash == InitDash /\ [][NextDash]_vars

\* the background task executor of the aegis server
InitExecutor ==
    /\ harness = "executor"
    /\ InitCommon
    /\ pc = "recv"
    /\ sent = IF sys = "bridge" THEN <<Connected>> ELSE <<>>

NextExecutor ==
    \/ \E id \in TaskIds : AddTask(id)
    \/ StartCall
    \/ Wake
    \/ \E id \in TaskIds : BgBegin(id)
    \/ \E id \in TaskIds, ok \in BOOLEAN : BgFinish(id, ok)
    \/ \E id \in TaskIds : BgCancelled(id)
    \/ \E id \in TaskIds : Cleanup(id)
    \/ StopCall
    \/ StopReturn

SpecExecutor == InitExecutor /\ [][NextExecutor]_vars

\* an audio session whose client sends a reset while a turn is in progress
InitCancel ==
    /\ harness = "cancel"
    /\ InitCommon
    /\ pc = "recv"
    /\ sent = IF sys = "bridge" THEN <<Connected>> ELSE <<>>

NextCancel ==
    \/ \E f \in FrameSet, d \in StepSet : BridgeBinary(f, d)
    \/ BridgeReset
    \/ \E f \in FrameSet, d \in StepSet : AegisBinary(f, d)
    \/ AegisReset
    \/ SttEmpty
    \/ \E t \in Texts : SttText(t)
    \/ Conversation
    \/ LlmError
    \/ EndTurn
    \/ ClientSends

SpecCancel == InitCancel /\ [][NextCancel]_vars

\* the text entry point of a client, called turn after turn
InitChat ==
    /\ harness = "chat"
    /\ InitCommon
    /\ pc = "idle_text"
    /\ sent = <<>>

NextChat ==
    \/ \E t \in Texts : ChatCall(t)
    \/ Conversation
    \/ LlmError
    \/ EndTurn

SpecChat == InitChat /\ [][NextChat]_vars

\* the text entry point with tool_use blocks of every kind
InitTools ==
    /\ harness = "tools"
    /\ InitCommon
    /\ pc = "idle_text"
    /\ sent = <<>>

SpecTools == InitTools /\ [][NextChat]_vars

\* the text entry point with user texts that do and do not name a trigger
InitRoute ==
    /\ harness = "route"
    /\ InitCommon
    /\ pc = "idle_text"
    /\ sent = <<>>

SpecRoute == InitRoute /\ [][NextChat]_vars

(* ------------------------- utterance segmentation ---------------------- *)
\* the frames received since the recording began, as of the last frame
Seen == segOut.seen

\* silent frames that end an utterance in the running server
SilenceThreshold ==
    IF sys = "aegis" THEN silence_threshold_chunks ELSE SILENCE_CHUNKS_TO_STOP

\* the amplitude below which the running server takes a frame for silent
SilenceLevel == IF sys = "aegis" THEN silence_threshold ELSE DETECT_THRESHOLD

IsSilent(f) == SumAbs(f) < SilenceLevel * Len(f)
AllSilent(ss) == \A i \in DOMAIN ss : IsSilent(ss[i])
AllNonSilent(ss) == \A i \in DOMAIN ss : ~IsSilent(ss[i])

\* a run of non-silent frames followed by exactly the threshold of silent ones
RunLen == Len(Seen) - SilenceThreshold
SpeechThenSilence ==
    /\ RunLen >= 1
    /\ AllNonSilent(SubSeq(Seen, 1, RunLen))
    /\ AllSilent(SubSeq(Seen, RunLen + 1, Len(Seen)))
SpeechRun == Flatten(SubSeq(Seen, 1, RunLen))

\* playing time of a byte string, in ms
DurationMs(pcm) == ByteLen(pcm) \div bytes_per_ms

\* C1: in a bridge audio session recognition is invoked only on an utterance
\* that passed both false-trigger guards (energy at least MIN_SPEECH_RMS and
\* recording time at least MIN_RECORDING_MS), whichever way the recording
\* ended: silence, forced flush or an explicit end_of_speech message.
C1_RecognitionOnlyAfterGuards ==
    (sys = "bridge" /\ pc = "stt") =>
        /\ ~RmsBelow(audio_data, MIN_SPEECH_RMS)
        /\ now - recording_start >= MIN_RECORDING_MS

C3_NonSilentNeverCompletes ==
    (Seen # <<>> /\ AllNonSilent(Seen) /\ Len(Seen) < SilenceThreshold) => ~segOut.done

\* C3 amended: a sequence of non-silent frames never makes the segmenter
\* report completion, unless, in the bridge, a frame arrives more than
\* MAX_RECORDING_MS after the recording began (the forced flush).
C3_NonSilentCompletesOnlyByFlush ==
    ( /\ Seen # <<>> /\ AllNonSilent(Seen)
      /\ ~(sys = "bridge" /\ segOut.elapsed > MAX_RECORDING_MS) )
    => ~segOut.done

\* the bridge keeps recording through several non-silent frames
C3_Witness ==
    /\ sys = "bridge" /\ pc = "recv" /\ is_recording
    /\ Len(Seen) >= SilenceThreshold /\ AllNonSilent(Seen)
    /\ ~segOut.done /\ audio_buffer = Flatten(Seen)

\* C4: a run of frames that is silent throughout, or whose overall energy is
\* below MIN_SPEECH_RMS, never yields a completed utterance and never causes
\* a call into recognition, however many silent frames are received.
C4_QuietRunNeverRecognised ==
    ( /\ Seen # <<>>
      /\ AllSilent(Seen) \/ RmsBelow(Flatten(Seen), MIN_SPEECH_RMS) )
    => (~segOut.done /\ ~(pc = "stt" /\ via # "end_of_speech"))

(* --------------------------- conversation turns ------------------------ *)
\* C5: a turn of the conversation loop issues at most max_tool_rounds model
\* requests and then leaves the loop, even if every response requests a tool.
C5_RequestsBounded ==
    /\ requests <= max_tool_rounds
    /\ tool_round <= max_tool_rounds
    /\ pc = "stream" => tool_round < max_tool_rounds

\* every response of a turn requested a tool and the loop was left
C5_Witness ==
    /\ pc = "finalize"
    /\ requests = max_tool_rounds
    /\ tool_round = max_tool_rounds

\* the configured cap of the running client's history
HistoryCap == IF sys = "aegis" THEN max_history ELSE BRIDGE_HISTORY_LIMIT

\* C6: at the end of every turn, with or without tool rounds, the dialogue
\* history is no longer than the configured cap.
C6_HistoryWithinCap ==
    pc = "tail" => Len(conversation_history) <= HistoryCap

(* --------------------------- sentences and audio ----------------------- *)
\* the reply of the turn has been streamed and handled to its end
ReplyComplete ==
    /\ pc = "tail" /\ requests > 0
    /\ sys = "bridge" => sent[Len(sent)] = DoneMsg

NoWS(s) == SelectSeq(s, LAMBDA c : c \notin WS)

RECURSIVE IsSubseq(_, _)
\* s is t with some elements left out
IsSubseq(s, t) ==
    IF s = <<>> THEN TRUE
    ELSE IF t = <<>> THEN FALSE
    ELSE IF s[1] = t[1] THEN IsSubseq(Tail(s), Tail(t))
    ELSE IsSubseq(s, Tail(t))

AudioAt == {i \in DOMAIN sent : sent[i].type = "audio"}

StatusAt(state) == {i \in DOMAIN sent : sent[i] = Status(state)}

\* C9: the status messages of a bridge session follow processing, then zero
\* or more speaking, then idle: since the last idle (or the connection) at
\* most one processing was sent, speaking only after it, and the session
\* waits for frames again only after the idle that closes the turn.
C9_StatusOrder ==
    sys = "bridge" =>
        /\ Cardinality(StatusAt("processing")) <= 1
        /\ \A i \in StatusAt("speaking") : \E j \in StatusAt("processing") : j < i
        /\ \A i \in StatusAt("idle") : i = 1
        /\ pc \in {"recv", "closed"} => StatusAt("processing") = {}
        /\ pc \in {"stt", "request", "stream", "finalize", "tail"} =>
               StatusAt("processing") # {}

\* a turn started by end_of_speech has spoken and is about to report idle
C9_Witness ==
    /\ sys = "bridge" /\ pc = "tail" /\ via = "end_of_speech"
    /\ StatusAt("speaking") # {}
    /\ sent[Len(sent)] = DoneMsg

\* C10: handling a reset leaves the session idle with an empty dialogue
\* history, an empty audio buffer and a zero silence counter, whatever the
\* session held before.
C10_ResetClearsSession ==
    [][(BridgeReset \/ AegisReset) =>
          /\ conversation_history' = <<>>
          /\ audio_buffer' = <<>>
          /\ silence_counter' = 0
          /\ is_recording' = FALSE
          /\ pc' = "recv"]_vars

\* a session that had a turn and frames is empty again
C10_Witness ==
    /\ pc = "recv" /\ turns > 0
    /\ conversation_history = <<>>
    /\ audio_buffer = <<>> /\ silence_counter = 0 /\ ~is_recording

(* ------------------------------ cancellation --------------------------- *)
\* the session task is inside a turn, before its handler returns
InTurn == pc \in {"stt", "request", "stream", "finalize"}

\* reply audio frames in the outbound log
AudioSent(log) == Len(SelectSeq(log, LAMBDA m : m.type = "audio"))

\* C11: a reset message that arrives while a turn is in progress aborts the
\* turn: from then on that turn issues no further model request, synthesizes
\* nothing more and transmits no further reply audio
C11_ResetAbortsTurn ==
    [][(inbox = "reset" /\ InTurn)
        => (requests' = requests /\ synth' = synth /\ AudioSent(sent') = AudioSent(sent))]_vars

(* -------------------------------- failures ----------------------------- *)
\* the last message sent to the client
LastSent == IF sent = <<>> THEN Msg("none", "", <<>>, 0, 0) ELSE sent[Len(sent)]

\* C12: a failure of the model provider during a turn of an audio session is
\* caught at the turn boundary: the client is sent an error or status
\* message and the session task goes on to the end of the turn, from where
\* it returns to the receive loop; it does not terminate
C12_FailureCaughtAtTurnBoundary ==
    [][(LlmError /\ Endpoint = "audio")
        => (pc' = "tail" /\ LastSent' \in {ErrorMsg, Status("idle")})]_vars

(* ------------------------------ tool failures --------------------------- *)
\* the message the next model request ends with
FedBack == IF sys = "bridge" THEN messages[Len(messages)]
           ELSE conversation_history[Len(conversation_history)]

\* the call is for an unknown tool or its handler raises
Fails(call) == call.name \notin HANDLERS \/ call.outcome # "returns"

\* C13: dispatching an unknown tool name, or a tool whose handler raises,
\* yields a structured error payload that is fed back to the model as the
\* tool result; no exception reaches the conversation loop, which goes on
\* to its next round
C13_ToolFailureFedBack ==
    [][\A call \in ToolCalls :
          ((BridgeStreamEnd(call) \/ AegisStreamEnd(call)) /\ Fails(call))
          => (pc' = "request" /\ FedBack'.tool = "tool_result"
              /\ FedBack'.content # <<>> /\ FedBack'.content[1] = "error")]_vars

(* ------------------------------ end of a turn --------------------------- *)
\* the last entry of the dialogue history
LastEntry ==
    IF conversation_history = <<>> THEN [role |-> "none", content |-> <<>>, tool |-> "none"]
    ELSE conversation_history[Len(conversation_history)]

\* C14: when a turn ends, by natural completion or by exhausting the tool
\* rounds, the assistant reply has been appended to the dialogue history:
\* the last history entry is the assistant's, with the text of the reply
\* (bridge: of the whole turn; aegis: of the last response)
C14_ReplyEndsHistory ==
    [][(BridgeFinalize \/ AegisFinalize)
        => (LastEntry'.role = "assistant"
            /\ LastEntry'.content = IF sys = "bridge" THEN full_response ELSE round_text)]_vars

(* ------------------------------ forced flush ---------------------------- *)
\* C15: once the time elapsed since a recording began exceeds the maximum
\* recording duration, the frame that arrives completes the utterance even
\* though no silence was detected, so the buffer does not keep growing
C15_ForcedCompletion ==
    (Seen # <<>> /\ segOut.elapsed > MAX_RECORDING_MS) => segOut.done

(* ---------------------------- empty transcript -------------------------- *)
\* binary frames in the outbound log: reply audio and feedback tones
SoundSent(log) == Len(SelectSeq(log, LAMBDA m : m.type \in {"audio", "tone", "chime"}))

\* the turn was aborted because recognition returned no text
AbortedEmpty == pc = "tail" /\ requests = 0

\* C16: when recognition yields empty text the turn is aborted with no
\* reply: no model request and no synthesis happen, no audio and no
\* feedback tone is sent, the dialogue history is unchanged, and the session
\* goes back to waiting for frames (the bridge reports idle)
C16_EmptyTranscriptAborts ==
    [][/\ SttEmpty => /\ pc' = "tail"
                      /\ conversation_history' = conversation_history
                      /\ requests' = 0 /\ synth' = <<>>
                      /\ SoundSent(sent') = 0
       /\ (AbortedEmpty /\ pc' # pc)
             => /\ pc' = "recv"
                /\ conversation_history' = conversation_history
                /\ requests' = 0 /\ synth' = <<>>
                /\ sent' = IF sys = "bridge" THEN <<Status("idle")>> ELSE <<>>]_vars

C16_Witness == AbortedEmpty /\ audio_data # <<>> /\ SoundSent(sent) = 0

(* --------------------------- turn completion --------------------------- *)
\* positions of the completion message in the messages of the turn
DoneAt == { i \in DOMAIN sent : sent[i].type = "done" }

RECURSIVE Bytes(_)
\* the bytes carried by a list of messages
Bytes(log) == IF log = <<>> THEN 0 ELSE log[1].n + Bytes(Tail(log))
\* the audio bytes transmitted in this turn for the i-th synthesized text
BytesSent(i) ==
    Bytes(SelectSeq(sent, LAMBDA m : m.type = "audio" /\ m.seq = i))

\* C18: a sentence whose synthesis returns no audio is skipped and nothing
\* else: in a bridge turn every text synthesized gets exactly the audio the
\* synthesizer returned for it transmitted (none for a failed one, all of
\* it for every other, earlier or later), a step that synthesizes leaves
\* the turn running or completes it with the "done" message, and a
\* completed reply has had all of its text synthesized.
C18_FailedSynthesisSkipped ==
    /\ [](sys = "bridge" =>
            /\ Len(pcm_audio) = Len(synth)
            /\ \A i \in DOMAIN synth : BytesSent(i) = pcm_audio[i])
    /\ []((sys = "bridge" /\ ReplyComplete) =>
            NoWS(Flatten(synth)) = NoWS(streamed))
    /\ [][(sys = "bridge" /\ Len(pcm_audio') > Len(pcm_audio)) =>
              \/ pc' = "stream"
              \/ pc' = "tail" /\ sent'[Len(sent')] = DoneMsg]_vars

\* a completed bridge reply in which a sentence got no audio and a later
\* one was transmitted
C18_Witness ==
    /\ sys = "bridge" /\ ReplyComplete
    /\ \E i, k \in DOMAIN pcm_audio :
           /\ i < k /\ pcm_audio[i] = 0 /\ pcm_audio[k] > 0
           /\ BytesSent(i) = 0 /\ BytesSent(k) = pcm_audio[k]

(* ------------------------------ two sessions --------------------------- *)
\* C19: sessions share no mutable session state: a step of the second
\* connection (a frame, a turn, a reset, a disconnect) leaves this
\* connection's audio buffer, silence counter, recording flag and dialogue
\* history as they are, and only a step of the second connection changes
\* the second connection's.
C19_SessionsIndependent ==
    [][/\ PeerActs =>
             UNCHANGED <<audio_buffer, silence_counter, is_recording, conversation_history>>
       /\ peer' # peer => PeerActs]_vars

\* this connection was reset after a turn of its own while the second
\* connection holds a recording and the history of its own turn
C19_Witness ==
    /\ turns > 0 /\ conversation_history = <<>> /\ pc = "recv"
    /\ peer.conversation_history # <<>>
    /\ peer.audio_buffer # <<>> /\ audio_buffer = <<>>

(* ------------------------- malformed text frames ----------------------- *)
\* text frames that are not a well-formed control message: not valid JSON,
\* or valid JSON that is not an object carrying a known type
Malformed == { frame \in TextFrames : ~(has_get(frame) /\ frame.type \in KnownTypes) }

\* C20: a text frame that is not a well-formed control message is ignored:
\* handling it leaves the audio buffer, the silence counter, the recording
\* flag and the history as they are, sends nothing, and the session goes on
\* waiting for frames.
C20_MalformedFrameIgnored ==
    [][\A frame \in Malformed :
          TextFrame(frame) =>
              /\ UNCHANGED <<audio_buffer, silence_counter, is_recording,
                             conversation_history>>
              /\ pc' = "recv" /\ sent' = sent]_vars

(* ---------------------------- tool invocations -------------------------- *)
\* the messages a request carries: the bridge sends its local list, aegis
\* the history
RequestMessages == IF sys = "bridge" THEN messages ELSE conversation_history
\* the invocation a completed tool_use block asks for
Invocation(call) ==
    [id |-> tool_replies + 1, name |-> call.name, arguments |-> tool_input(call.input_json)]
\* the result with correlation id id is among the messages ms
Carries(ms, id) ==
    \E i \in DOMAIN ms : ms[i].tool = "tool_result" /\ ms[i].tool_use_id = id
StreamEnds(call) == BridgeStreamEnd(call) \/ AegisStreamEnd(call)

Routed(text) ==
    IF \E trigger \in OPUS_TRIGGERS : Contains(lower(text), trigger)
    THEN claude_opus_model ELSE claude_haiku_model

\* C22: the model of a turn is a function of the user text alone, the
\* deeper model if and only if the lower-cased text contains a trigger
\* keyword: the first request of a turn uses the model routed for the user
\* message just appended, and every request of the turn uses the same model.
C22_ModelRoutedOncePerTurn ==
    /\ [][(Request /\ requests = 0 /\ requests' = 1) =>
              request_models'[1] =
                  Routed(conversation_history[Len(conversation_history)].content)]_vars
    /\ [](\A i, j \in DOMAIN request_models : request_models[i] = request_models[j])

(* ------------------------------ status endpoint ------------------------ *)
\* audio connections of the bridge that are open
OpenConnections == (IF pc # "closed" THEN 1 ELSE 0) + (IF peer.open THEN 1 ELSE 0)

\* C23: the session count the bridge status endpoint reports equals the
\* number of audio connections currently open.
C23_StatusCountsOpenSessions ==
    sys = "bridge" => api_status.connections = OpenConnections

(* ------------------------------- rate limit ---------------------------- *)
\* requests of ip recorded within the window_seconds before now_s
InWindow(times, now_s) ==
    Cardinality({i \in DOMAIN times : times[i] > now_s - window_seconds /\ times[i] <= now_s})

\* C24: for each address at most 60 requests are admitted within the 60
\* seconds up to any moment: a request is admitted (recorded at the current
\* time) exactly if fewer than 60 recorded requests of its address lie
\* within the preceding 60 seconds, a denied request is not recorded, and
\* a request never changes what is recorded for another address.
C24_RateLimitPerIp ==
    /\ [](\A ip \in ClientIps : InWindow(request_times[ip], wall_time) <= requests_per_minute)
    /\ [][\A ip \in ClientIps :
             LimiterCall(ip) =>
                 /\ InWindow(request_times'[ip], wall_time) =
                        IF InWindow(request_times[ip], wall_time) < requests_per_minute
                        THEN InWindow(request_times[ip], wall_time) + 1
                        ELSE InWindow(request_times[ip], wall_time)
                 /\ \A other \in ClientIps \ {ip} :
                        request_times'[other] = request_times[other]]_vars

\* an address has used up its 60 requests, part of them in the earlier
\* half of the window, while another address has been served
C24_Witness ==
    /\ wall_time > 0
    /\ \E ip \in ClientIps :
           /\ InWindow(request_times[ip], wall_time) = requests_per_minute
           /\ \E i \in DOMAIN request_times[ip] : request_times[ip][i] < wall_time
           /\ \E other \in ClientIps \ {ip} : request_times[other] # <<>>

(* ------------------------------ task executor -------------------------- *)
\* the status changes of a task that is executed
TaskPath ==
    { <<"none", "pending">>, <<"pending", "in_progress">>,
      <<"in_progress", "completed">>, <<"in_progress", "failed">> }

\* C25: a task is executed at most once and never by two runs at a time:
\* every execution begins on a pending task with no run behind it, a
\* task's status only moves pending, in_progress, then completed or failed,
\* and a task that is completed or failed keeps its status and is not
\* executed again.
C25_TaskExecutedAtMostOnce ==
    /\ [](\A id \in TaskIds : runs[id] <= 1)
    /\ [][\A id \in TaskIds :
             /\ task_status'[id] # task_status[id] =>
                    <<task_status[id], task_status'[id]>> \in TaskPath
             /\ runs'[id] # runs[id] =>
                    (task_status[id] = "pending" /\ bg_task[id] # "chat")]_vars

\* one task has completed and another has failed, each after one run
C25_Witness ==
    \E a, b \in TaskIds :
        /\ task_status[a] = "completed" /\ task_status[b] = "failed"
        /\ runs[a] = 1 /\ runs[b] = 1

\* C26: once stop() has returned, is_running is false, running_tasks is
\* empty, every background task that was cancelled is recorded as failed,
\* and no task is launched or begun afterwards.
C26_StopLeavesNothingRunning ==
    /\ [](stop_pc = "returned" =>
            /\ ~is_running /\ running_tasks = {}
            /\ \A id \in TaskIds :
                   bg_task[id] \in {"cancelled", "cancelled_cb"} => task_status[id] = "failed")
    /\ [][stop_pc = "returned" => (running_tasks' = running_tasks /\ runs' = runs)]_vars

(* ---------------------------- speaking status ------------------------- *)
\* C27: in a bridge turn, every frame of synthesized reply audio sent to
\* the client comes after a status 'speaking' of that turn.
C27_SpeakingBeforeReplyAudio ==
    sys = "bridge" =>
        \A i \in AudioAt : \E j \in StatusAt("speaking") : j < i

(* ---------------------------- end of speech --------------------------- *)
\* a recording is in progress: the bridge's flag, aegis's non-empty buffer
Recording == IF sys = "bridge" THEN is_recording ELSE audio_buffer # <<>>

\* C28: when an end_of_speech message is received while a recording is in
\* progress, the session leaves the receive loop with the buffered audio as
\* the utterance, and when the turn it started is over the audio buffer is
\* empty, the silence counter is 0 and the recording flag is off.
C28_EndOfSpeechEndsRecording ==
    /\ [][(pc = "recv" /\ inbox = "end_of_speech" /\ inbox' = "none" /\ Recording)
            => (pc' = "stt" /\ audio_data' = audio_buffer)]_vars
    /\ [][(via = "end_of_speech" /\ pc = "tail" /\ pc' = "recv")
            => (audio_buffer' = <<>> /\ silence_counter' = 0 /\ ~is_recording')]_vars

(* ------------------------------- history ------------------------------- *)
\* entries one step of a client appends at most (an assistant message and
\* the tool results of its round)
MaxAppend == 2

\* the number of entries a truncation keeps
HistoryKeep == IF sys = "aegis" THEN max_history ELSE BRIDGE_HISTORY_KEEP

\* h2 is h with the last n entries of h2 appended, whole or cut down to its
\* most recent HistoryKeep entries
AppendedOrTruncated(h, h2, n) ==
    /\ n <= Len(h2)
    /\ LET all == h \o SubSeq(h2, Len(h2) - n + 1, Len(h2))
       IN  \/ h2 = all
           \/ /\ Len(all) > HistoryKeep
              /\ h2 = SubSeq(all, Len(all) - HistoryKeep + 1, Len(all))

\* C29: apart from reset, every change of the dialogue history appends
\* entries at its end and, if it truncates, leaves exactly the most recent
\* entries in their order, each as it was.
C29_HistoryAppendOrTruncate ==
    [][conversation_history' # conversation_history =>
          \/ BridgeReset \/ AegisReset
          \/ \E n \in 1..MaxAppend :
                AppendedOrTruncated(conversation_history, conversation_history', n)]_vars

\* the aegis history has been truncated: it is at its cap and its oldest
\* entry is no longer the user message of a first turn
C29_Witness ==
    /\ sys = "aegis" /\ turns >= 3
    /\ Len(conversation_history) = max_history
    /\ conversation_history[1].role = "assistant"

(* ---------------------------- reply framing --------------------------- *)
\* the transport frame size of each server
FrameSize == IF sys = "bridge" THEN chunk_size ELSE chunk_size_bytes

\* C30: every frame of reply audio sent to the client has exactly the
\* transport frame size.
C30_ReplyFramesFullSize ==
    \A i \in AudioAt : sent[i].n = FrameSize

(* ----------------------------- latency window ------------------------- *)
\* C31: for every stage the stored samples are exactly the most recent
\* min(n, 100) of the n recorded values, in recording order; so no stage
\* holds more than 100 samples and the reported count is at most 100.
C31_LatencyWindow ==
    \A stage \in Stages :
        LET n == recorded[stage]
            m == Min(n, LATENCY_KEEP)
        IN  /\ latency_stats[stage] = [i \in 1..m |-> n - m + i]
            /\ latency_count(stage) <= LATENCY_KEEP

\* a stage has recorded more samples than the window holds
C31_Witness ==
    \E stage \in Stages : recorded[stage] > LATENCY_KEEP /\ latency_count(stage) = LATENCY_KEEP

TextBuffer == IF sys = "aegis" THEN buffer ELSE sentence_buffer

\* buf holds a complete sentence as the server's pattern defines one:
\* aegis SENTENCE_RE, text closed by a terminator; the bridge's split
\* pattern, a terminator followed by whitespace
HoldsSentence(buf) ==
    \E j \in 2..Len(buf) :
        IF sys = "aegis" THEN buf[j] \in Term /\ buf[j - 1] \notin Term
        ELSE buf[j] \in WS /\ buf[j - 1] \in Term

HasTerm(s) == \E j \in DOMAIN s : s[j] \in Term

\* C33: while the reply is streamed, after every delta the text buffer
\* holds no complete sentence, and every sentence released before the end
\* of the stream contains a terminator.
C33_SentencesYieldedPromptly ==
    /\ [](pc = "stream" => ~HoldsSentence(TextBuffer))
    /\ [][(pc = "stream" /\ pc' = "stream") =>
             \A i \in (Len(sentences) + 1)..Len(sentences') : HasTerm(sentences'[i])]_vars

(* ------------------------- audio during a turn ------------------------- *)
\* C34: no utterance handed to recognition contains a frame that the
\* client sent while a turn was in progress.
C34_NoLateFrameInUtterance ==
    pc = "stt" => \A i \in DOMAIN audio_data : audio_data[i] # LateFrame[1]

(* --------------------------- aborted turns ----------------------------- *)
\* no turn is in progress
BetweenTurns == pc \in {"idle_text", "recv"}

\* C35: between turns the bridge history alternates user and assistant
\* messages, starting with a user message and ending with an assistant
\* message, also after turns that a provider or tool error aborted.
C35_BridgeHistoryAlternates ==
    (sys = "bridge" /\ BetweenTurns) =>
        /\ \A i \in DOMAIN conversation_history :
               conversation_history[i].role = IF i % 2 = 1 THEN "user" ELSE "assistant"
        /\ Len(conversation_history) % 2 = 0

(* ------------------------ tool results in history ---------------------- *)
\* the message list of the request in flight
SentHistory == IF sys = "aegis" THEN conversation_history ELSE messages

\* C36: in every history sent to the model, each tool result comes right
\* after the assistant entry that holds its tool invocation.
C36_ToolResultFollowsInvocation ==
    pc = "stream" =>
        \A i \in DOMAIN SentHistory :
            SentHistory[i].tool = "tool_result" =>
                /\ i > 1
                /\ SentHistory[i - 1].role = "assistant"
                /\ SentHistory[i - 1].tool = "tool_use"

(* ------------------------- dashboard broadcast ------------------------- *)
\* C37: dashboard clients that connect or disconnect during a broadcast
\* never make broadcast_to_dashboard raise and never end the audio session
\* that broadcasts; no client receives an event twice; when a broadcast
\* ends the clients whose send failed are out of the registry, and every
\* client registered throughout it whose send did not fail has received the
\* event once.
C37_BroadcastSurvivesRegistryChanges ==
    /\ [](bcast.pc # "raised" /\ pc # "closed")
    /\ [](\A c \in DashClients : delivered[c] <= 1)
    /\ []((bcast.pc = "idle" /\ bcast.calls > 0) =>
            \A c \in bcast.throughout : delivered[c] = 1 \/ c \in bcast.disconnected)
    /\ [][(bcast.pc = "sending" /\ bcast'.pc = "idle") =>
             dashboard_clients' \cap bcast'.disconnected = {}]_vars

(* ----------------------- frames of any byte length --------------------- *)
\* C38: a binary frame of any byte length (empty, shorter than two samples,
\* odd) is processed without raising: no binary frame ends the session task.
C38_BinaryFrameNeverEndsSession == [][pc = "recv" => pc' # "closed"]_vars

(* ------------------- conversation context of a task -------------------- *)
\* C39: the message history sent to the model for one background task
\* holds no message of another task.
C39_TaskHistoryHoldsOwnMessages ==
    \A id \in TaskIds : \A i \in DOMAIN task_sent[id] : task_sent[id][i].task = id

====
